---- MODULE Spec2Model ----
(***************************************************************************)
(* Model of the computational core of the net worth / expense tracker:     *)
(* the budget comparator and category aggregation (data/calculations.py,   *)
(* data/expense_calculations.py), the growth projection engine             *)
(* (growth_projections_view.py) and the period metrics of the net worth    *)
(* views (ui/views/networth_tracker/growth_over_time.py, pivot_table.py),  *)
(* the net worth metrics, merchant and day-of-week aggregations of         *)
(* data/calculations.py, the drawdown and the beta of the stock tracker's  *)
(* risk analysis (ui/views/stock_tracker/risk_analysis.py), the owned      *)
(* symbols of the stock tracker (ui/views/stock_tracker_view.py), the cost *)
(* basis comparison chart (ui/charts.py) and the account selection of the  *)
(* net worth sidebar (ui/components/filters.py).                           *)
(*                                                                         *)
(* Money amounts are integers.  A float quotient is kept as an exact       *)
(* fraction in lowest terms (Rat); the float results of a division by zero *)
(* are the values Inf, NegInf and NaN.                                     *)
(***************************************************************************)
EXTENDS Integers, Sequences, FiniteSets, TLC

VARIABLES
    \* ---- expense aggregation and budget comparison
    df,             \* transactions: sequence of [category, amount]
    budgets,        \* dict category -> monthly budget, in insertion order
    num_months,     \* number of distinct months of the date filter
    budget_df,      \* rows returned by calculate_budget_comparison
    category_spending, \* rows returned by calculate_category_spending
    raised,         \* exception raised by the call, or "none"
    bpc             \* which function has run: "ready" or the function's name

budgetVars == <<df, budgets, num_months, budget_df, category_spending, raised, bpc>>

VARIABLES
    \* ---- growth projection engine: the arguments
    current_value,
    goal_amount,
    monthly_contribution,
    annual_return_rate,     \* percent per year
    compound_freq,          \* "monthly" or "annually"
    max_months,             \* generate_projection_data's cap
    \* calculate_months_to_goal: its locals, return value and position
    months,
    balance,
    ret,
    gpc,
    \* generate_projection_data: its locals, the rows built and position
    month,
    proj_balance,
    total_contributions,
    projection_df,          \* rows [Month, Balance, Contributions, Growth]
    ppc

goalArgs == <<current_value, goal_amount, monthly_contribution, annual_return_rate,
              compound_freq, max_months>>
goalVars == <<months, balance, ret, gpc>>
projVars == <<month, proj_balance, total_contributions, projection_df, ppc>>

VARIABLES
    \* ---- net worth views: the data and the widget values read
    filtered_df,        \* one row [month, amount] per month, the month's accounts summed
    df_columns,         \* the columns of the caller's frame
    period_comparison,  \* "Monthly", "Quarterly" or "Yearly" (growth view)
    view_preset,        \* "Standard", "With Trend Line" or "With 3-month Average"
    show_milestones,
    highlight_extremes,
    comparison_type,    \* "month", "Quarter" or "Year" (pivot view)
    \* show_growth_over_time
    stats,              \* the Quick Stats metrics
    selected_indices,
    totals_df,          \* rows [Period, amount, Period_Pct] of the displayed periods
    rolling_avg,        \* the Rolling_Avg column, empty when not computed
    annotations,        \* milestone and best/worst markers added to the chart
    growth_warning,
    vpc,
    \* show_pivot_table
    month_cols,         \* indices of the month columns kept
    kpi,
    pct_changes,
    pivot_warning,
    tpc

periodArgs == <<filtered_df>>
frameVars == <<df_columns>>
growthVars == <<period_comparison, view_preset, show_milestones, highlight_extremes,
                stats, selected_indices, totals_df, rolling_avg, annotations,
                growth_warning, vpc>>
pivotVars == <<comparison_type, month_cols, kpi, pct_changes, pivot_warning, tpc>>
periodVars == <<periodArgs, frameVars, growthVars, pivotVars>>

VARIABLES
    \* ---- calculate_metrics: the two snapshots, the dict returned, position
    latest_data,        \* rows [account_type, amount] of the current month
    previous_data,      \* the previous month's rows, or None: [given, rows]
    metrics,
    mpc

metricsVars == <<latest_data, previous_data, metrics, mpc>>

VARIABLES
    \* ---- merchant and day-of-week aggregation of the transactions
    tx_df,              \* transactions: sequence of [merchant, date, amount]
    limit,              \* the number of merchants asked for
    top_merchants,      \* rows [merchant, amount] returned
    dow_spending,       \* rows [day_of_week, amount] returned
    tx_raised,          \* exception raised by the call, or "none"
    epc                 \* which function has run: "ready" or the function's name

expenseVars == <<tx_df, limit, top_merchants, dow_spending, tx_raised, epc>>

VARIABLES
    \* ---- risk analysis of the stock tracker: the drawdown and the beta
    portfolio_daily,    \* 'Current Value' of the portfolio, one value per date
    symbol_data,        \* 'Last Close' of one symbol, sorted by date
    symbol_start,       \* number of the frame's dates before the symbol's first row
    df_index,           \* the kind of row labels the historical frame carries
    beta,               \* the symbol's Beta in the risk table, or None
    drawdown,           \* the drawdown series computed, in percent
    max_drawdown,       \* its minimum, or None when nothing was computed
    risk_info,          \* the st.info message shown, or "none"
    rpc                 \* which function has run: "ready" or the function's name

riskVars == <<portfolio_daily, symbol_data, symbol_start, df_index, beta,
              drawdown, max_drawdown, risk_info, rpc>>

VARIABLES
    \* ---- stock tracker: the symbols currently owned
    historical_df,      \* rows [ticker, account, Date, quantity], in row order
    filtered_symbols,   \* the list _get_filtered_symbols returns
    spc                 \* "call" or "returned"

symbolsVars == <<historical_df, filtered_symbols, spc>>

VARIABLES
    \* ---- stock tracker: the cost basis comparison chart
    daily_totals,       \* rows [Date, cost_basis, current_value], one per date
    index_fetch,        \* what the index price lookup does: [kind, prices]
    fig,                \* the figure returned, or None
    chart_raised,       \* exception that left the function, or "none"
    cpc                 \* "call" or "returned"

chartVars == <<daily_totals, index_fetch, fig, chart_raised, cpc>>


VARIABLES
    \* ---- account selection of the net worth sidebar
    selected_account_types, \* the header filter's account types
    search,                 \* the text of the search box
    selected_accounts,      \* st.session_state.selected_accounts, when present
    check_state,            \* st.session_state["check_<account>"] per account
    sidebar_ret,            \* the list the last run of the sidebar returned
    sbpc                    \* "idle", "run" (a run is due) or "wait" (for the user)

sidebarVars == <<selected_account_types, search, selected_accounts, check_state,
                 sidebar_ret, sbpc>>

vars == <<budgetVars, goalArgs, goalVars, projVars, periodVars, metricsVars,
          expenseVars, riskVars,
          symbolsVars,
          chartVars,
          sidebarVars>>

\* the variables a component leaves alone
outsideBudget == <<goalArgs, goalVars, projVars, periodVars, metricsVars, expenseVars,
    riskVars,
    symbolsVars,
    chartVars,
    sidebarVars>>
outsideGoal == <<budgetVars, projVars, periodVars, metricsVars, expenseVars,
    riskVars,
    symbolsVars,
    chartVars,
    sidebarVars>>
outsideGoalProjection == <<budgetVars, periodVars, metricsVars, expenseVars,
    riskVars,
    symbolsVars,
    chartVars,
    sidebarVars>>
outsideProjection == <<budgetVars, goalVars, periodVars, metricsVars, expenseVars,
    riskVars,
    symbolsVars,
    chartVars,
    sidebarVars>>
outsidePeriod == <<budgetVars, goalArgs, goalVars, projVars, metricsVars, expenseVars,
    riskVars,
    symbolsVars,
    chartVars,
    sidebarVars>>
outsideMetrics == <<budgetVars, goalArgs, goalVars, projVars, periodVars, expenseVars,
    riskVars,
    symbolsVars,
    chartVars,
    sidebarVars>>
outsideExpense == <<budgetVars, goalArgs, goalVars, projVars, periodVars, metricsVars,
    riskVars,
    symbolsVars,
    chartVars,
    sidebarVars>>
outsideRisk == <<budgetVars, goalArgs, goalVars, projVars, periodVars, metricsVars,
    expenseVars,
    symbolsVars,
    chartVars,
    sidebarVars>>
outsideChart == <<budgetVars, goalArgs, goalVars, projVars,
    periodVars, metricsVars, expenseVars, riskVars, symbolsVars,
    sidebarVars>>
outsideSidebar == <<budgetVars, goalArgs, goalVars, projVars,
    periodVars, metricsVars, expenseVars, riskVars, symbolsVars, chartVars>>
outsideSymbols == <<budgetVars, goalArgs, goalVars, projVars,
    periodVars, metricsVars, expenseVars, riskVars,
    chartVars,
    sidebarVars>>

-----------------------------------------------------------------------------
(* Numbers *)

Abs(x) == IF x < 0 THEN -x ELSE x

RECURSIVE GCD(_, _)
GCD(a, b) == IF b = 0 THEN a ELSE GCD(b, a % b)

\* the float n / d for d > 0, as a fraction in lowest terms
Rat(n, d) ==
    LET g == GCD(Abs(n), d)
    IN  [num |-> n \div g, den |-> d \div g]

\* float division x / y of two integers, y # 0
FloatDiv(x, y) == IF y > 0 THEN Rat(x, y) ELSE Rat(-x, -y)

\* float product of a fraction and an integer
RatTimes(r, k) == Rat(r.num * k, r.den)

Zero == Rat(0, 1)

-----------------------------------------------------------------------------
(* Expense aggregation and budget comparison *)

MaxTx == 3
MaxNumMonths == 2

\* category names in the sort order of a pandas groupby
CategoryOrder == <<"Food", "Housing">>
Categories == {CategoryOrder[i] : i \in 1..Len(CategoryOrder)}
TxAmounts == {-50, -30, 50}
BudgetValues == {0, 40}

Transactions == [category : Categories, amount : TxAmounts]
BudgetEntries == [category : Categories, monthly_budget : BudgetValues]

\* a dict has each key once
DistinctKeys(b) == \A i, j \in 1..Len(b) : b[i].category = b[j].category => i = j

BudgetTables ==
    {b \in UNION {[1..k -> BudgetEntries] : k \in 0..Len(CategoryOrder)} : DistinctKeys(b)}

DataFrames == UNION {[1..k -> Transactions] : k \in 0..MaxTx}

_convert_to_absolute(amount) == Abs(amount)

RECURSIVE AmountSum_abs_first(_, _)
\* the absolute value taken before the summation
AmountSum_abs_first(d, c) ==
    IF d = <<>> THEN 0
    ELSE (IF Head(d).category = c THEN Abs(Head(d).amount) ELSE 0)
         + AmountSum_abs_first(Tail(d), c)

RECURSIVE AmountSum(_, _)
\* df[df.category == c].amount.sum()
AmountSum(d, c) ==
    IF d = <<>> THEN 0
    ELSE (IF Head(d).category = c THEN Head(d).amount ELSE 0) + AmountSum(Tail(d), c)

HasCategory(d, c) == \E i \in 1..Len(d) : d[i].category = c

RECURSIVE GroupByCategory(_, _)
\* df.groupby(category).amount.sum(): one row per category present in d,
\* in key order; i walks CategoryOrder
GroupByCategory(d, i) ==
    IF i > Len(CategoryOrder) THEN <<>>
    ELSE LET c == CategoryOrder[i]
         IN  (IF HasCategory(d, c)
                 THEN <<[category |-> c, amount |-> AmountSum(d, c)]>>
                 ELSE <<>>)
             \o GroupByCategory(d, i + 1)

\* .apply(_convert_to_absolute) on the amount column
ApplyAbsolute(rows) ==
    [i \in 1..Len(rows) |->
        [category |-> rows[i].category, amount |-> _convert_to_absolute(rows[i].amount)]]

\* calculate_category_spending: group and sum, take the absolute value of each
\* sum, sort by amount, group by category again.  The second groupby orders
\* the result by category, so the intermediate sort leaves no trace.
CategorySpending(d) == GroupByCategory(ApplyAbsolute(GroupByCategory(d, 1)), 1)

\* category_spending.get(category, 0.0) over the dict built from the grouped sums
SpentOf(d, c) ==
    IF HasCategory(d, c) THEN _convert_to_absolute(AmountSum(d, c)) ELSE 0

\* the monthly budget left unscaled and the percentage left unguarded at 0
BudgetRow_unscaled(d, entry, n) ==
    LET scaled_budget == entry.monthly_budget
        spent == SpentOf(d, entry.category)
    IN  [Category |-> entry.category,
         Budget |-> scaled_budget,
         Spent |-> spent,
         Remaining |-> scaled_budget - spent,
         Percentage |-> IF scaled_budget > 0
                           THEN RatTimes(FloatDiv(spent, scaled_budget), 100)
                           ELSE Zero]

\* one row of the comparison (the body of the loop over budgets.items())
BudgetRow(d, entry, n) ==
    LET scaled_budget == entry.monthly_budget * n
        spent == SpentOf(d, entry.category)
        remaining == scaled_budget - spent
        percentage == IF scaled_budget > 0
                         THEN RatTimes(FloatDiv(spent, scaled_budget), 100)
                         ELSE Zero
    IN  [Category |-> entry.category,
         Budget |-> scaled_budget,
         Spent |-> spent,
         Remaining |-> remaining,
         Percentage |-> percentage]

\* rows only for the budget categories that have transactions
BudgetRows_spent_only(d, b, n) ==
    LET spent_in(entry) == HasCategory(d, entry.category)
        kept == SelectSeq(b, spent_in)
    IN  [i \in 1..Len(kept) |-> BudgetRow(d, kept[i], n)]

\* the loop over budgets.items(): one row per entry, in the dict's order
BudgetRows(d, b, n) == [i \in 1..Len(b) |-> BudgetRow(d, b[i], n)]

BudgetIdle ==
    /\ df = <<>>
    /\ budgets = <<>>
    /\ num_months = 1
    /\ budget_df = <<>>
    /\ category_spending = <<>>
    /\ raised = "none"
    /\ bpc = "idle"

BudgetInit ==
    /\ df \in DataFrames
    /\ budgets \in BudgetTables
    /\ num_months \in 0..MaxNumMonths
    /\ budget_df = <<>>
    /\ category_spending = <<>>
    /\ raised = "none"
    /\ bpc = "ready"

\* data/calculations.py
calculate_budget_comparison ==
    /\ bpc = "ready"
    /\ bpc' = "calculate_budget_comparison"
    /\ IF num_months < 1
          THEN /\ raised' = "FinancialCalculationError"
               /\ budget_df' = budget_df
          ELSE /\ raised' = raised
               /\ budget_df' = BudgetRows(df, budgets, num_months)
    /\ UNCHANGED <<df, budgets, num_months, category_spending, outsideBudget>>

\* data/expense_calculations.py
expense_calculate_budget_comparison ==
    /\ bpc = "ready"
    /\ bpc' = "expense_calculate_budget_comparison"
    /\ budget_df' = BudgetRows(df, budgets, num_months)
    /\ UNCHANGED <<df, budgets, num_months, category_spending, raised, outsideBudget>>

calculate_category_spending ==
    /\ bpc = "ready"
    /\ bpc' = "calculate_category_spending"
    /\ category_spending' = CategorySpending(df)
    /\ UNCHANGED <<df, budgets, num_months, budget_df, raised, outsideBudget>>

BudgetNext ==
    \/ calculate_budget_comparison
    \/ expense_calculate_budget_comparison
    \/ calculate_category_spending



-----------------------------------------------------------------------------
(* Growth projection engine *)

\* the iteration cap of calculate_months_to_goal
MaxMonthsCap == 1200

\* the largest cap handed to generate_projection_data
MaxHorizon == 4

NoneValue == [kind |-> "None"]
IntValue(n) == [kind |-> "int", value |-> n]
FloatValue(r) == [kind |-> "float", value |-> r]
\* the float np.log(ratio) / np.log(1 + rate), kept symbolic: the exact
\* quotient of the two logarithms, and the side on which the float computed
\* lies (err = -1 just below it, 0 on it, 1 just above it)
LogValue(ratio, rate, err) ==
    [kind |-> "log", ratio |-> ratio, rate |-> rate, err |-> err]

\* np.log is not correctly rounded and the quotient rounds once more, so the
\* float returned is the exact value or a neighbour on either side
RoundingErrors == {-1, 0, 1}

\* (1 + a/100) ** (1/12) - 1 in units of 1/12000, rounded down, for the
\* annual rates of AnnualRates:  1.06 ** (1/12) - 1 = 0.0048676,
\* 0.94 ** (1/12) - 1 = -0.0051430, 1.0 ** (1/12) - 1 = 0
TwelfthRoot(a) ==
    CASE a = 0 -> 0
      [] a = 6 -> 58
      [] a = -6 -> -62

\* the rate per month as a fraction: annual_rate / 12 = a / 1200 for monthly
\* compounding, the twelfth root for annual compounding
MonthlyRate(a, freq) ==
    IF freq = "monthly"
        THEN [num |-> a, den |-> 1200]
        ELSE [num |-> TwelfthRoot(a), den |-> 12000]

\* balance * (1 + monthly_rate) + monthly_contribution, the balance kept to a
\* whole number of money units (rounded down)
GrowOneMonth(b, rate, contribution) ==
    b + ((b * rate.num) \div rate.den) + contribution

RECURSIVE BalanceAfter(_, _, _, _)
\* the balance after k months of GrowOneMonth from b (the months are split in
\* two halves to keep the evaluation shallow)
BalanceAfter(b, rate, contribution, k) ==
    IF k = 0 THEN b
    ELSE IF k = 1 THEN GrowOneMonth(b, rate, contribution)
    ELSE LET half == BalanceAfter(b, rate, contribution, k \div 2)
         IN  IF half \in Int
                THEN BalanceAfter(half, rate, contribution, k - (k \div 2))
                ELSE half

\* the balance that 100 a month at 6 % a year, compounded monthly, has after
\* exactly MaxMonthsCap months, and after one month less
BalanceAtCap == BalanceAfter(0, MonthlyRate(6, "monthly"), 100, MaxMonthsCap)
BalanceBeforeCap == BalanceAfter(0, MonthlyRate(6, "monthly"), 100, MaxMonthsCap - 1)

CurrentValues == {0, 1000}
GoalAmounts == {500, 1000, 1200, 2000, BalanceBeforeCap, BalanceAtCap, BalanceAtCap + 1}
Contributions == {-10, 0, 100}
AnnualRates == {-6, 0, 6}
CompoundFreqs == {"monthly", "annually"}

GoalIdle ==
    /\ months = 0
    /\ balance = 0
    /\ ret = NoneValue
    /\ gpc = "idle"

ProjIdle ==
    /\ month = 0
    /\ proj_balance = 0
    /\ total_contributions = 0
    /\ projection_df = <<>>
    /\ ppc = "idle"

GoalArgsInit ==
    /\ current_value \in CurrentValues
    /\ goal_amount \in GoalAmounts
    /\ monthly_contribution \in Contributions
    /\ annual_return_rate \in AnnualRates
    /\ compound_freq \in CompoundFreqs

GoalArgsIdle ==
    /\ current_value = 0
    /\ goal_amount = 0
    /\ monthly_contribution = 0
    /\ annual_return_rate = 0
    /\ compound_freq = "monthly"
    /\ max_months = 0

monthly_rate == MonthlyRate(annual_return_rate, compound_freq)

\* the goal-met test skipped when the goal is unreachable
GoalMet_unless_unreachable(goal, current, contribution, rate) ==
    goal <= current /\ ~(rate = 0 /\ contribution = 0)

\* if goal_amount <= current_value, tested first   (lines 27-28)
GoalMet(goal, current, contribution, rate) == goal <= current

\* the current value left out of the distance to the goal
ZeroRateMonths_goal_only(goal, current, contribution) ==
    IF contribution > 0
        THEN FloatValue(FloatDiv(goal, contribution))
        ELSE NoneValue

\* the return for monthly_rate == 0   (lines 40-43)
ZeroRateMonths(goal, current, contribution) ==
    IF contribution > 0
        THEN FloatValue(FloatDiv(goal - current, contribution))
        ELSE NoneValue

\* the closed form for monthly_contribution == 0   (lines 45-48): the values
\* the return can take
LogMonths(goal, current, rate) ==
    IF current <= 0
        THEN {NoneValue}
        ELSE {LogValue(FloatDiv(goal, current), rate, err) : err \in RoundingErrors}

\* the returns before the loop (lines 27-48), or the loop's initialisation
calculate_months_to_goal ==
    /\ gpc = "call"
    /\ IF GoalMet(goal_amount, current_value, monthly_contribution, annual_return_rate)
          THEN ret' = IntValue(0) /\ gpc' = "returned" /\ UNCHANGED <<months, balance>>
       ELSE IF annual_return_rate = 0 /\ monthly_contribution = 0
          THEN ret' = NoneValue /\ gpc' = "returned" /\ UNCHANGED <<months, balance>>
       ELSE IF monthly_rate.num = 0
          THEN /\ ret' = ZeroRateMonths(goal_amount, current_value, monthly_contribution)
               /\ gpc' = "returned"
               /\ UNCHANGED <<months, balance>>
       ELSE IF monthly_contribution = 0
          THEN /\ ret' \in LogMonths(goal_amount, current_value, monthly_rate)
               /\ gpc' = "returned"
               /\ UNCHANGED <<months, balance>>
       ELSE /\ months' = 0
            /\ balance' = current_value
            /\ gpc' = "loop"
            /\ ret' = ret
    /\ UNCHANGED <<goalArgs, outsideGoal>>

\* one pass of the while loop (lines 54-56)
months_loop_step ==
    /\ gpc = "loop"
    /\ balance < goal_amount /\ months < MaxMonthsCap
    /\ balance' = GrowOneMonth(balance, monthly_rate, monthly_contribution)
    /\ months' = months + 1
    /\ UNCHANGED <<ret, gpc, goalArgs, outsideGoal>>

\* the loop's exit and the return after it (lines 58-61)
months_loop_exit ==
    /\ gpc = "loop"
    /\ ~(balance < goal_amount /\ months < MaxMonthsCap)
    /\ ret' = IF months >= MaxMonthsCap THEN NoneValue ELSE IntValue(months)
    /\ gpc' = "returned"
    /\ UNCHANGED <<months, balance, goalArgs, outsideGoal>>

GoalNext ==
    \/ calculate_months_to_goal
    \/ months_loop_step
    \/ months_loop_exit

\* generate_projection_data

ProjGoalAmounts == {1000, 1200, 2000}

\* the test that ends the trace, with a strict comparison
GoalReached_strict(b, goal) == b > goal

\* if balance >= goal_amount: break
GoalReached(b, goal) == b >= goal

\* the row with the growth taken before the contributions are subtracted
ProjectionRow_gross_growth(m, b, contributed) ==
    [Month |-> m, Balance |-> b, Contributions |-> contributed,
     Growth |-> b - current_value]

\* the four appends of one pass: month, balance, cumulative contributions and
\* cumulative growth
ProjectionRow(m, b, contributed) ==
    [Month |-> m, Balance |-> b, Contributions |-> contributed,
     Growth |-> b - current_value - contributed]

RECURSIVE PowerSteps(_, _, _, _)
\* the least m >= k with (1 + rate)^m >= ratio, where p = (1 + rate)^k, and
\* whether the two are then equal; exact fractions
PowerSteps(p, ratio, rate, k) ==
    IF p.num * ratio.den >= ratio.num * p.den
        THEN [steps |-> k, tie |-> p.num * ratio.den = ratio.num * p.den]
        ELSE PowerSteps(Rat(p.num * (rate.den + rate.num), p.den * rate.den),
                        ratio, rate, k + 1)

\* int(x) of a float: the fraction cut off towards zero
Truncate(r) ==
    IF r.num >= 0 THEN r.num \div r.den ELSE -((-r.num) \div r.den)

\* the whole part of the closed form ln(ratio) / ln(1 + rate) for ratio > 1
\* and rate > 0: the compounding steps that fit below the ratio; on a step
\* exactly, the float just below the whole number loses one
LogWholePart(v) ==
    LET exact == PowerSteps(Rat(1, 1), v.ratio, v.rate, 0)
    IN  IF exact.tie /\ v.err >= 0 THEN exact.steps ELSE exact.steps - 1

\* int(months_to_goal)   (line 329)
int_months(m) ==
    CASE m.kind = "int" -> m.value
      [] m.kind = "float" -> Truncate(m.value)
      [] m.kind = "log" -> LogWholePart(m)

\* show_growth_projections, lines 281-330: with the months to the goal
\* returned, None ends the render; otherwise generate_projection_data is
\* called with max_months = int(months_to_goal)
show_growth_projections ==
    /\ gpc = "returned"
    /\ ppc = "pending"
    /\ IF ret = NoneValue
          THEN ppc' = "stopped" /\ max_months' = max_months
          ELSE ppc' = "call" /\ max_months' = int_months(ret)
    /\ UNCHANGED <<current_value, goal_amount, monthly_contribution, annual_return_rate,
                   compound_freq, goalVars, month, proj_balance, total_contributions,
                   projection_df, outsideGoalProjection>>

ProjArgsInit ==
    /\ current_value \in CurrentValues
    /\ goal_amount \in ProjGoalAmounts
    /\ monthly_contribution \in Contributions
    /\ annual_return_rate \in AnnualRates
    /\ compound_freq \in CompoundFreqs
    /\ max_months \in 0..MaxHorizon

\* lines 85-98: the rate, the empty lists, the starting balance
generate_projection_data ==
    /\ ppc = "call"
    /\ projection_df' = <<>>
    /\ proj_balance' = current_value
    /\ total_contributions' = 0
    /\ month' = 0
    /\ ppc' = "loop"
    /\ UNCHANGED <<goalArgs, outsideProjection>>

\* one pass of `for month in range(max_months + 1)` (lines 100-110)
projection_loop_step ==
    /\ ppc = "loop"
    /\ month < max_months + 1
    /\ projection_df' =
          Append(projection_df, ProjectionRow(month, proj_balance, total_contributions))
    /\ IF GoalReached(proj_balance, goal_amount)
          THEN /\ ppc' = "returned"
               /\ UNCHANGED <<month, proj_balance, total_contributions>>
          ELSE /\ proj_balance' =
                     GrowOneMonth(proj_balance, monthly_rate, monthly_contribution)
               /\ total_contributions' = total_contributions + monthly_contribution
               /\ month' = month + 1
               /\ ppc' = ppc
    /\ UNCHANGED <<goalArgs, outsideProjection>>

\* the range is exhausted: the DataFrame is returned (lines 112-117)
projection_loop_end ==
    /\ ppc = "loop"
    /\ ~(month < max_months + 1)
    /\ ppc' = "returned"
    /\ UNCHANGED <<month, proj_balance, total_contributions, projection_df,
                   goalArgs, outsideProjection>>

ProjNext ==
    \/ generate_projection_data
    \/ projection_loop_step
    \/ projection_loop_end

-----------------------------------------------------------------------------
(* Net worth views: the period metrics of show_growth_over_time and of      *)
(* show_pivot_table                                                         *)

\* the longest month series, and the longest one whose amounts vary freely
MaxMonths == 14
MaxVaried == 4

\* months are numbered from January of the first year: 0 = Jan, 2 = Mar, 11 = Dec
StartMonths == {0, 2, 11}
AmountValues == {-100000, 0, 100000, 300000}

\* the float results of a division by zero
Inf == [num |-> 1, den |-> 0]
NegInf == [num |-> -1, den |-> 0]
NaN == [num |-> 0, den |-> 0]

\* a short series of small totals
ExampleSeries == <<10, 20, 30, 40>>

\* the monthly totals of a series of n months: every choice of AmountValues
\* up to MaxVaried months, and a steady rise of 50,000 a month above that;
\* ExampleSeries besides
AmountSeries(n) ==
    (IF n <= MaxVaried THEN [1..n -> AmountValues] ELSE {[i \in 1..n |-> 50000 * i]})
    \cup (IF n = Len(ExampleSeries) THEN {ExampleSeries} ELSE {})

\* contiguous months from a start month, in chronological order
NetWorthData ==
    UNION {UNION {{[i \in 1..n |-> [month |-> start + i - 1, amount |-> a[i]]] :
                      a \in AmountSeries(n)} : start \in StartMonths} : n \in 0..MaxMonths}

PeriodViews == {"Monthly", "Quarterly", "Yearly"}
ViewPresets == {"With Trend Line", "With 3-month Average"}
ComparisonTypes == {"month", "Quarter", "Year"}

\* interval_map of both views
interval_map(view) ==
    CASE view \in {"Monthly", "month"} -> 1
      [] view \in {"Quarterly", "Quarter"} -> 3
      [] view \in {"Yearly", "Year"} -> 12

\* the Period column: the month, its quarter (dt.to_period('Q')) or its year
PeriodLabel(m, view) ==
    CASE view = "Monthly" -> m
      [] view = "Quarterly" -> m \div 3
      [] view = "Yearly" -> m \div 12

RECURSIVE RangeDown(_, _)
\* list(range(i, -1, -step))
RangeDown(i, step) == IF i < 0 THEN <<>> ELSE <<i>> \o RangeDown(i - step, step)

\* s[::-1]
Reverse(s) == [k \in 1..Len(s) |-> s[Len(s) + 1 - k]]

\* the anchor dropped: only the stride from the most recent month
GrowthSelectedIndices_no_anchor(n, interval) == Reverse(RangeDown(n - 1, interval))

\* growth_over_time.py lines 154-158, indices counted from 0
GrowthSelectedIndices(n, interval) ==
    LET sel == Reverse(RangeDown(n - 1, interval))
    IN  IF sel # <<>> /\ sel[1] > 0 THEN <<0>> \o sel ELSE sel

\* pivot_table.py lines 119-126
PivotSelectedIndices(n, interval) ==
    LET sel == Reverse(RangeDown(n - 1, interval))
    IN  IF sel # <<>> /\ sel[1] > 0 /\ Len(sel) = 1 THEN <<0>> \o sel
        ELSE IF sel # <<>> /\ sel[1] > 0 THEN <<0>> \o sel
        ELSE sel

\* (change / abs(base)) * 100 if base != 0 else 0   (mom_pct, total_pct)
HeadlinePct(change, base) ==
    IF base # 0 THEN RatTimes(FloatDiv(change, Abs(base)), 100) ELSE Zero

\* pivot_table.calculate_progress
calculate_progress(current, past) ==
    LET absolute_progress == current - past
    IN  [absolute_progress |-> absolute_progress,
         percent_progress |-> IF past # 0
                                 THEN RatTimes(FloatDiv(absolute_progress, Abs(past)), 100)
                                 ELSE Zero]

\* Series.pct_change(periods=1) * 100 at one position: cur / prev - 1, in
\* float arithmetic (a zero prev gives inf, -inf or nan)
PctChange(cur, prev) ==
    IF prev = 0
        THEN (IF cur > 0 THEN Inf ELSE IF cur < 0 THEN NegInf ELSE NaN)
        ELSE RatTimes(FloatDiv(cur - prev, prev), 100)

\* a label for two periods: Steady unless the change reverses
Momentum_two_periods(d) ==
    LET n == Len(d)
        mom_change == d[n].amount - d[n - 1].amount
        prev_period_change == IF n >= 3 THEN d[n - 1].amount - d[n - 2].amount
                              ELSE mom_change
        velocity == mom_change - prev_period_change
    IN  IF velocity > 0 THEN "Accelerating"
        ELSE IF velocity < 0 THEN "Decelerating"
        ELSE "Steady"

\* velocity_text (lines 56-67), for a series d of at least 2 periods
Momentum(d) ==
    LET n == Len(d)
        mom_change == d[n].amount - d[n - 1].amount
    IN  IF n >= 3
           THEN LET prev_period_change == d[n - 1].amount - d[n - 2].amount
                    velocity == mom_change - prev_period_change
                IN  IF velocity > 0 THEN "Accelerating"
                    ELSE IF velocity < 0 THEN "Decelerating"
                    ELSE "Steady"
           ELSE "N/A"

MinAmount(rows) ==
    CHOOSE v \in {rows[k].amount : k \in 1..Len(rows)} :
        \A k \in 1..Len(rows) : v <= rows[k].amount
MaxAmount(rows) ==
    CHOOSE v \in {rows[k].amount : k \in 1..Len(rows)} :
        \A k \in 1..Len(rows) : v >= rows[k].amount

\* the position of the first row whose amount passes Test
FirstWhere(rows, Test(_)) ==
    CHOOSE k \in 1..Len(rows) :
        Test(rows[k].amount) /\ \A j \in 1..(k - 1) : ~Test(rows[j].amount)

\* Series.idxmax() and idxmin(): the first occurrence, as an index from 0
IdxMax(rows) == LET IsMax(v) == v = MaxAmount(rows) IN FirstWhere(rows, IsMax) - 1
IdxMin(rows) == LET IsMin(v) == v = MinAmount(rows) IN FirstWhere(rows, IsMin) - 1

NoStats == [shown |-> FALSE]

\* the Quick Stats of lines 43-73, for a monthly series d of at least 2 months
QuickStats(d) ==
    LET n == Len(d)
        current_nw == d[n].amount
        previous_nw == d[n - 1].amount
        first_nw == d[1].amount
        mom_change == current_nw - previous_nw
        total_change == current_nw - first_nw
    IN  [shown |-> TRUE,
         current_nw |-> current_nw,
         mom_change |-> mom_change,
         mom_pct |-> HeadlinePct(mom_change, previous_nw),
         total_change |-> total_change,
         total_pct |-> HeadlinePct(total_change, first_nw),
         months_tracked |-> n,
         avg_monthly_growth |-> FloatDiv(total_change, n),
         velocity_text |-> Momentum(d),
         best_month |-> d[IdxMax(d) + 1].month,
         worst_month |-> d[IdxMin(d) + 1].month]

\* the rows of d at the selected indices
SelectedRows(d, sel) == [k \in 1..Len(sel) |-> d[sel[k] + 1]]

RECURSIVE Ascending(_)
\* the members of a set of integers in increasing order
Ascending(S) ==
    IF S = {} THEN <<>>
    ELSE LET lo == CHOOSE x \in S : \A y \in S : x <= y
         IN  <<lo>> \o Ascending(S \ {lo})

RECURSIVE PeriodSum(_, _, _)
\* the summed amount of the rows labelled with the period
PeriodSum(rows, view, label) ==
    IF rows = <<>> THEN 0
    ELSE (IF PeriodLabel(Head(rows).month, view) = label THEN Head(rows).amount ELSE 0)
         + PeriodSum(Tail(rows), view, label)

\* lines 163-193: the selected months labelled with their period, grouped by
\* the label and summed, sorted by the label
PeriodTotals(d, sel, view) ==
    LET rows == SelectedRows(d, sel)
        labels == Ascending({PeriodLabel(rows[k].month, view) : k \in 1..Len(rows)})
    IN  [k \in 1..Len(labels) |->
            [Period |-> labels[k], amount |-> PeriodSum(rows, view, labels[k])]]

\* line 201: the Period_Pct column
WithPeriodPct(rows) ==
    [k \in 1..Len(rows) |->
        [Period |-> rows[k].Period,
         amount |-> rows[k].amount,
         Period_Pct |-> IF k = 1 THEN NaN
                        ELSE PctChange(rows[k].amount, rows[k - 1].amount)]]

\* the sum of the window divided by the window's nominal size 3 at every k
RollingMean_nominal_window(rows, k) ==
    IF k >= 3 THEN FloatDiv(rows[k - 2].amount + rows[k - 1].amount + rows[k].amount, 3)
    ELSE IF k = 2 THEN FloatDiv(rows[1].amount + rows[2].amount, 3)
    ELSE FloatDiv(rows[1].amount, 3)

\* rolling(window=3, min_periods=1).mean() at position k
RollingMean(rows, k) ==
    IF k >= 3 THEN FloatDiv(rows[k - 2].amount + rows[k - 1].amount + rows[k].amount, 3)
    ELSE IF k = 2 THEN FloatDiv(rows[1].amount + rows[2].amount, 2)
    ELSE FloatDiv(rows[1].amount, 1)

\* lines 209-211
RollingAvgColumn(rows, preset, view) ==
    LET show_rolling_avg == preset = "With 3-month Average" /\ view = "Monthly"
    IN  IF show_rolling_avg /\ Len(rows) >= 3
           THEN [k \in 1..Len(rows) |-> RollingMean(rows, k)]
           ELSE <<>>

\* line 257
milestones == <<100000, 250000, 500000, 750000, 1000000, 1500000, 2000000>>

\* the guard with the bounds included
MilestoneInRange_inclusive(rows, milestone) ==
    MinAmount(rows) <= milestone /\ milestone <= MaxAmount(rows)

\* line 262: min_nw < milestone < max_nw
MilestoneInRange(rows, milestone) ==
    MinAmount(rows) < milestone /\ milestone < MaxAmount(rows)

RECURSIVE MilestoneAnnotations(_, _)
\* lines 261-281: one annotation per milestone in range, at the first row
\* whose amount is at least the milestone; i walks the milestone list
MilestoneAnnotations(rows, i) ==
    IF i > Len(milestones) THEN <<>>
    ELSE LET milestone == milestones[i]
             AtLeast(v) == v >= milestone
         IN  (IF MilestoneInRange(rows, milestone)
                 THEN LET crossed == FirstWhere(rows, AtLeast)
                      IN  <<[kind |-> "milestone",
                             milestone |-> milestone,
                             idx |-> crossed - 1,
                             x |-> rows[crossed].Period,
                             y |-> rows[crossed].amount]>>
                 ELSE <<>>)
             \o MilestoneAnnotations(rows, i + 1)

\* lines 284-311: the Best and Worst markers
ExtremeAnnotations(rows) ==
    LET best == IdxMax(rows) + 1
        worst == IdxMin(rows) + 1
    IN  <<[kind |-> "best", milestone |-> 0, idx |-> best - 1,
           x |-> rows[best].Period, y |-> rows[best].amount],
          [kind |-> "worst", milestone |-> 0, idx |-> worst - 1,
           x |-> rows[worst].Period, y |-> rows[worst].amount]>>

\* the columns of the net worth frame the views are handed
NetWorthColumns ==
    {"month", "month_Str", "amount", "account", "account_type", "category"}

\* the frame's columns after filtered_df['Date'] = ..., filtered_df['Quarter']
\* = ... and filtered_df['Year'] = ... (lines 135-137)
WithPeriodColumns(columns) == columns \cup {"Date", "Quarter", "Year"}

PeriodArgsInit ==
    /\ filtered_df \in NetWorthData
    /\ df_columns = NetWorthColumns

GrowthInit ==
    /\ period_comparison = "Monthly"
    /\ view_preset = "With Trend Line"
    /\ show_milestones = TRUE
    /\ highlight_extremes = TRUE
    /\ stats = NoStats
    /\ selected_indices = <<>>
    /\ totals_df = <<>>
    /\ rolling_avg = <<>>
    /\ annotations = <<>>
    /\ growth_warning = "none"

PivotInit ==
    /\ comparison_type = "month"
    /\ month_cols = <<>>
    /\ kpi = NoStats
    /\ pct_changes = <<>>
    /\ pivot_warning = "none"

PeriodIdle ==
    /\ filtered_df = <<>>
    /\ df_columns = {}
    /\ GrowthInit /\ vpc = "idle"
    /\ PivotInit /\ tpc = "idle"

\* lines 28-89: the empty check and the Quick Stats
show_growth_over_time ==
    /\ vpc = "call"
    /\ IF filtered_df = <<>>
          THEN /\ growth_warning' = "No data available. Please adjust your filters."
               /\ vpc' = "returned"
               /\ stats' = stats
       ELSE IF Len(filtered_df) >= 2
          THEN /\ stats' = QuickStats(filtered_df)
               /\ vpc' = "controls"
               /\ growth_warning' = growth_warning
       ELSE /\ growth_warning' = "Need at least 2 months of data for analysis."
            /\ vpc' = "returned"
            /\ stats' = stats
    /\ UNCHANGED <<period_comparison, view_preset, show_milestones, highlight_extremes,
                   selected_indices, totals_df, rolling_avg, annotations,
                   periodArgs, frameVars, pivotVars, outsidePeriod>>

\* lines 96-211: the widgets are read, the months selected at the interval,
\* the period totals with their % change and rolling average built
growth_period_data ==
    /\ vpc = "controls"
    /\ \E view \in PeriodViews, preset \in ViewPresets, sm \in BOOLEAN, he \in BOOLEAN :
          LET sel == GrowthSelectedIndices(Len(filtered_df), interval_map(view))
              totals == PeriodTotals(filtered_df, sel, view)
          IN  /\ period_comparison' = view
              /\ view_preset' = preset
              /\ show_milestones' = sm
              /\ highlight_extremes' = he
              /\ selected_indices' = sel
              /\ totals_df' = WithPeriodPct(totals)
              /\ rolling_avg' = RollingAvgColumn(totals, preset, view)
    /\ df_columns' = WithPeriodColumns(df_columns)
    /\ vpc' = "chart"
    /\ UNCHANGED <<stats, annotations, growth_warning, periodArgs, pivotVars, outsidePeriod>>

\* lines 216-311: the chart with its milestone and best/worst annotations
growth_chart ==
    /\ vpc = "chart"
    /\ annotations' =
          (IF show_milestones THEN MilestoneAnnotations(totals_df, 1) ELSE <<>>)
          \o (IF highlight_extremes /\ Len(totals_df) >= 2
                 THEN ExtremeAnnotations(totals_df) ELSE <<>>)
    /\ vpc' = "rendered"
    /\ UNCHANGED <<period_comparison, view_preset, show_milestones, highlight_extremes,
                   stats, selected_indices, totals_df, rolling_avg, growth_warning,
                   periodArgs, frameVars, pivotVars, outsidePeriod>>

\* add_kpi_metrics over the Grand Total row g of the kept month columns
KpiMetrics(g) ==
    LET n == Len(g)
        last_value == g[n]
        first_value == g[1]
        prev_value == IF n > 1 THEN g[n - 1] ELSE last_value
        total == calculate_progress(last_value, first_value)
    IN  [shown |-> TRUE,
         last_value |-> last_value,
         first_value |-> first_value,
         pct_change |-> calculate_progress(last_value, prev_value).percent_progress,
         total_progress |-> total.absolute_progress,
         total_progress_pct |-> total.percent_progress,
         periods_tracked |-> n]

\* style_grand_total_row: pct_changes, 0.0 for the first column
GrandTotalPctChanges(g) ==
    [k \in 1..Len(g) |->
        IF k = 1 THEN Zero ELSE calculate_progress(g[k], g[k - 1]).percent_progress]

\* the Grand Total row of create_pivot_table: the total of each kept month
GrandTotal(d, cols) == [k \in 1..Len(cols) |-> d[cols[k] + 1].amount]

\* show_pivot_table, the second tab of the render, after the growth view
show_pivot_table ==
    /\ tpc = "call"
    /\ vpc \in {"returned", "rendered"}
    /\ IF filtered_df = <<>>
          THEN /\ pivot_warning' = "Data Error: No data available for the selected filters."
               /\ tpc' = "stopped"
               /\ UNCHANGED <<comparison_type, month_cols, kpi, pct_changes>>
       ELSE IF Len(filtered_df) < 2
          THEN /\ pivot_warning' = "Need at least 2 periods of data for meaningful comparisons."
               /\ tpc' = "stopped"
               /\ UNCHANGED <<comparison_type, month_cols, kpi, pct_changes>>
       ELSE \E ct \in ComparisonTypes :
               LET cols == PivotSelectedIndices(Len(filtered_df), interval_map(ct))
               IN  /\ comparison_type' = ct
                   /\ month_cols' = cols
                   /\ IF Len(cols) < 2
                         THEN /\ pivot_warning' = "Not enough data points for comparison."
                              /\ tpc' = "stopped"
                              /\ UNCHANGED <<kpi, pct_changes>>
                         ELSE /\ kpi' = KpiMetrics(GrandTotal(filtered_df, cols))
                              /\ pct_changes' =
                                    GrandTotalPctChanges(GrandTotal(filtered_df, cols))
                              /\ tpc' = "rendered"
                              /\ pivot_warning' = pivot_warning
    /\ UNCHANGED <<periodArgs, frameVars, growthVars, outsidePeriod>>

PeriodNext ==
    \/ show_growth_over_time
    \/ growth_period_data
    \/ growth_chart
    \/ show_pivot_table

-----------------------------------------------------------------------------
(* Net worth metrics of one month: data/calculations.py calculate_metrics *)

\* the largest number of account rows in a month's snapshot
MaxAccounts == 2

AccountTypeValues == {"Asset", "Liability"}
\* a liability row is stored as a negative amount or as a positive magnitude
SnapshotAmounts == {-200, 200, 1000}
SnapshotRows == [account_type : AccountTypeValues, amount : SnapshotAmounts]
Snapshots == UNION {[1..n -> SnapshotRows] : n \in 0..MaxAccounts}

RECURSIVE TypeSum(_, _)
\* data[(data['account_type'] == 'Liability') == liability]['amount'].sum()
TypeSum(data, liability) ==
    IF data = <<>> THEN 0
    ELSE (IF (Head(data).account_type = "Liability") = liability
             THEN Head(data).amount ELSE 0)
         + TypeSum(Tail(data), liability)

\* current_net_worth = current_assets + current_liabilities_raw   (line 179)
NetWorth(assets, liabilities_raw) == assets + liabilities_raw

\* (change / base * 100) if base != 0 else 0.0   (lines 217-226)
PctOfBase(change, base) ==
    IF base # 0 THEN RatTimes(FloatDiv(change, base), 100) ELSE Zero

\* (current_liabilities / total * 100) if total > 0 else 0.0   (lines 182-186)
DebtRatio(liabilities, net_worth) ==
    LET total_assets_and_nw == net_worth + liabilities
    IN  IF total_assets_and_nw > 0
            THEN RatTimes(FloatDiv(liabilities, total_assets_and_nw), 100)
            ELSE Zero

\* the dict built at lines 170-197
CurrentMetrics(latest) ==
    LET current_assets == TypeSum(latest, FALSE)
        current_liabilities_raw == TypeSum(latest, TRUE)
        current_liabilities == _convert_to_absolute(current_liabilities_raw)
        current_net_worth == NetWorth(current_assets, current_liabilities_raw)
    IN  [current_assets |-> current_assets,
         current_liabilities |-> current_liabilities,
         current_net_worth |-> current_net_worth,
         net_worth_change |-> 0,
         net_worth_pct_change |-> Zero,
         liabilities_change |-> 0,
         liabilities_change_pct |-> Zero,
         debt_ratio |-> DebtRatio(current_liabilities, current_net_worth)]

\* the previous period comparisons of lines 200-226
WithPreviousPeriod(m, previous) ==
    LET prev_assets == TypeSum(previous, FALSE)
        prev_liabilities_raw == TypeSum(previous, TRUE)
        prev_liabilities == _convert_to_absolute(prev_liabilities_raw)
        prev_net_worth == NetWorth(prev_assets, prev_liabilities_raw)
        net_worth_change == m.current_net_worth - prev_net_worth
        liabilities_change == m.current_liabilities - prev_liabilities
    IN  [m EXCEPT !.net_worth_change = net_worth_change,
                  !.net_worth_pct_change = PctOfBase(net_worth_change, prev_net_worth),
                  !.liabilities_change = liabilities_change,
                  !.liabilities_change_pct = PctOfBase(liabilities_change, prev_liabilities)]

NoMetrics == [returned |-> FALSE]

\* the optional argument previous_data: None, or a DataFrame
NoPreviousData == [given |-> FALSE, rows |-> <<>>]
PreviousData(rows) == [given |-> TRUE, rows |-> rows]

MetricsInit ==
    /\ latest_data \in Snapshots
    /\ previous_data \in {NoPreviousData} \cup {PreviousData(rows) : rows \in Snapshots}
    /\ metrics = NoMetrics
    /\ mpc = "call"

MetricsIdle ==
    /\ latest_data = <<>>
    /\ previous_data = NoPreviousData
    /\ metrics = NoMetrics
    /\ mpc = "idle"

\* calculate_metrics(latest_data, previous_data)
calculate_metrics ==
    /\ mpc = "call"
    /\ metrics' = IF previous_data.given /\ previous_data.rows # <<>>
                     THEN WithPreviousPeriod(CurrentMetrics(latest_data),
                                             previous_data.rows)
                     ELSE CurrentMetrics(latest_data)
    /\ mpc' = "returned"
    /\ UNCHANGED <<latest_data, previous_data, outsideMetrics>>

MetricsNext == calculate_metrics

-----------------------------------------------------------------------------
(* Merchant and day-of-week aggregation: calculate_top_merchants and        *)
(* calculate_spending_by_dow of data/calculations.py, and the variants of   *)
(* data/expense_calculations.py                                             *)

\* the largest number of transactions, and the largest limit asked for
MaxExpenseTx == 3
MaxLimit == 3

\* AnalysisConfig.TOP_MERCHANTS_LIMIT
TOP_MERCHANTS_LIMIT == 10

DAYS_OF_WEEK ==
    <<"Monday", "Tuesday", "Wednesday", "Thursday", "Friday", "Saturday", "Sunday">>

\* the merchants, in the sorted order groupby gives its keys
MerchantOrder == <<"Acme", "Bolt", "Cafe">>
Merchants == {MerchantOrder[i] : i \in 1..Len(MerchantOrder)}

\* dates as days counted from a Monday
Dates == {0, 9}
ExpenseAmounts == {-50, -30, 50}

\* Series.dt.day_name()
day_name(date) == DAYS_OF_WEEK[(date % 7) + 1]

ExpenseRows == [merchant : Merchants, date : Dates, amount : ExpenseAmounts]
ExpenseFrames == UNION {[1..n -> ExpenseRows] : n \in 0..MaxExpenseTx}

RECURSIVE HasMerchant(_, _)
HasMerchant(rows, m) ==
    IF rows = <<>> THEN FALSE
    ELSE Head(rows).merchant = m \/ HasMerchant(Tail(rows), m)

RECURSIVE MerchantSum(_, _)
\* the sum of the amounts of merchant m
MerchantSum(rows, m) ==
    IF rows = <<>> THEN 0
    ELSE (IF Head(rows).merchant = m THEN Head(rows).amount ELSE 0)
         + MerchantSum(Tail(rows), m)

RECURSIVE GroupByMerchantFrom(_, _)
GroupByMerchantFrom(rows, i) ==
    IF i > Len(MerchantOrder) THEN <<>>
    ELSE (IF HasMerchant(rows, MerchantOrder[i])
             THEN <<[merchant |-> MerchantOrder[i],
                     amount |-> _convert_to_absolute(MerchantSum(rows, MerchantOrder[i]))]>>
             ELSE <<>>)
         \o GroupByMerchantFrom(rows, i + 1)

\* df.groupby('merchant')['amount'].sum().apply(abs): one row per merchant of
\* the data, in sorted key order
GroupByMerchant(rows) == GroupByMerchantFrom(rows, 1)

\* the orders sort_values(ascending=False) can leave the rows in: the default
\* kind is quicksort, which is not stable, so rows of equal amount come in any
\* order
SortValuesDescending(rows) ==
    LET n == Len(rows)
        perms == {p \in [1..n -> 1..n] : \A i, j \in 1..n : i # j => p[i] # p[j]}
    IN  {[i \in 1..n |-> rows[p[i]]] : p \in
            {q \in perms : \A i \in 1..n : i < n => rows[q[i]].amount >= rows[q[i + 1]].amount}}

\* .head(n) for n >= 0
head(rows, n) == SubSeq(rows, 1, IF n < Len(rows) THEN n ELSE Len(rows))

RECURSIVE HasDay(_, _)
HasDay(rows, d) ==
    IF rows = <<>> THEN FALSE
    ELSE day_name(Head(rows).date) = d \/ HasDay(Tail(rows), d)

RECURSIVE DaySum(_, _)
\* the sum of the amounts of the transactions made on weekday d
DaySum(rows, d) ==
    IF rows = <<>> THEN 0
    ELSE (IF day_name(Head(rows).date) = d THEN Head(rows).amount ELSE 0)
         + DaySum(Tail(rows), d)

\* .reindex(DAYS_OF_WEEK) with the labels day d is given only if present
Reindex_present_only(rows, d) ==
    IF HasDay(rows, d)
        THEN <<[day_of_week |-> d, amount |-> Rat(_convert_to_absolute(DaySum(rows, d)), 1)]>>
        ELSE <<>>

\* the row .reindex(DAYS_OF_WEEK) gives day d: the group's value, or NaN (no
\* fill_value is passed) for a label the groupby result does not have
Reindex(rows, d) ==
    <<[day_of_week |-> d,
       amount |-> IF HasDay(rows, d)
                     THEN Rat(_convert_to_absolute(DaySum(rows, d)), 1)
                     ELSE NaN]>>

RECURSIVE SpendingByDowFrom(_, _)
SpendingByDowFrom(rows, i) ==
    IF i > Len(DAYS_OF_WEEK) THEN <<>>
    ELSE Reindex(rows, DAYS_OF_WEEK[i]) \o SpendingByDowFrom(rows, i + 1)

\* groupby('day_of_week')['amount'].sum().apply(abs).reindex(DAYS_OF_WEEK).reset_index()
SpendingByDow(rows) == SpendingByDowFrom(rows, 1)

\* the argument limit: None, or a number
NoLimit == [given |-> FALSE, value |-> 0]
LimitArgs == {NoLimit} \cup {[given |-> TRUE, value |-> k] : k \in 0..MaxLimit}

ExpenseInit ==
    /\ tx_df \in ExpenseFrames
    /\ limit = 0
    /\ top_merchants = <<>>
    /\ dow_spending = <<>>
    /\ tx_raised = "none"
    /\ epc = "ready"

ExpenseIdle ==
    /\ tx_df = <<>>
    /\ limit = 0
    /\ top_merchants = <<>>
    /\ dow_spending = <<>>
    /\ tx_raised = "none"
    /\ epc = "idle"

\* data/calculations.py calculate_top_merchants(df, limit)
calculate_top_merchants ==
    /\ epc = "ready"
    /\ \E arg \in LimitArgs :
          /\ limit' = IF arg.given THEN arg.value ELSE TOP_MERCHANTS_LIMIT
          /\ IF limit' < 1
                THEN /\ tx_raised' = "FinancialCalculationError"
                     /\ top_merchants' = top_merchants
                ELSE /\ tx_raised' = tx_raised
                     /\ \E sorted \in SortValuesDescending(GroupByMerchant(tx_df)) :
                            top_merchants' = head(sorted, limit')
    /\ epc' = "calculate_top_merchants"
    /\ UNCHANGED <<tx_df, dow_spending, outsideExpense>>

\* data/expense_calculations.py calculate_top_merchants(df, n)
expense_calculate_top_merchants ==
    /\ epc = "ready"
    /\ \E n \in 0..MaxLimit :
          /\ limit' = n
          /\ \E sorted \in SortValuesDescending(GroupByMerchant(tx_df)) :
                top_merchants' = head(sorted, n)
    /\ epc' = "expense_calculate_top_merchants"
    /\ UNCHANGED <<tx_df, dow_spending, tx_raised, outsideExpense>>

\* data/calculations.py calculate_spending_by_dow(df)
calculate_spending_by_dow ==
    /\ epc = "ready"
    /\ dow_spending' = SpendingByDow(tx_df)
    /\ epc' = "calculate_spending_by_dow"
    /\ UNCHANGED <<tx_df, limit, top_merchants, tx_raised, outsideExpense>>

\* data/expense_calculations.py calculate_spending_by_dow(df)
expense_calculate_spending_by_dow ==
    /\ epc = "ready"
    /\ dow_spending' = SpendingByDow(tx_df)
    /\ epc' = "expense_calculate_spending_by_dow"
    /\ UNCHANGED <<tx_df, limit, top_merchants, tx_raised, outsideExpense>>

ExpenseNext ==
    \/ calculate_top_merchants
    \/ expense_calculate_top_merchants
    \/ calculate_spending_by_dow
    \/ expense_calculate_spending_by_dow

-----------------------------------------------------------------------------
(* Risk analysis: the drawdown of ui/views/stock_tracker/risk_analysis.py,  *)
(* of the portfolio's daily value (_render_risk_summary) and of a symbol's  *)
(* closing price (_render_risk_table), and the symbol's beta against the    *)
(* portfolio.  The volatility and value-at-risk figures shown beside them   *)
(* are not part of the model.                                               *)

\* the longest series of daily valuations
MaxDays == 4

\* valuations and closing prices are positive
Valuations == {50, 100, 150}
ValuationSeries == UNION {[1..n -> Valuations] : n \in 0..MaxDays}

\* float arithmetic on fractions
RatMinus(a, b) == Rat(a.num * b.den - b.num * a.den, a.den * b.den)
RatOver(a, b) == FloatDiv(a.num * b.den, a.den * b.num)
RatLess(a, b) == a.num * b.den < b.num * a.den

\* values / values.iloc[0]
Cumulative(values) == [i \in 1..Len(values) |-> FloatDiv(values[i], values[1])]

RECURSIVE SeriesMax(_, _)
\* the largest of s[1..i]
SeriesMax(s, i) ==
    IF i = 1 THEN s[1]
    ELSE LET m == SeriesMax(s, i - 1)
         IN  IF RatLess(m, s[i]) THEN s[i] ELSE m

\* the maximum of the whole series at every point
RunningMax_overall(s) == [i \in 1..Len(s) |-> SeriesMax(s, Len(s))]

\* cumulative.expanding().max()
RunningMax(s) == [i \in 1..Len(s) |-> SeriesMax(s, i)]

\* (cumulative - running_max) / running_max * 100
Drawdown(values) ==
    LET cumulative == Cumulative(values)
        running_max == RunningMax(cumulative)
    IN  [i \in 1..Len(values) |->
            RatTimes(RatOver(RatMinus(cumulative[i], running_max[i]), running_max[i]), 100)]

RECURSIVE SeriesMin(_, _)
\* drawdown.min(): the smallest of s[1..i]
SeriesMin(s, i) ==
    IF i = 1 THEN s[1]
    ELSE LET m == SeriesMin(s, i - 1)
         IN  IF RatLess(s[i], m) THEN s[i] ELSE m

\* the row labels of the historical frame: its rows' positions, as in a
\* frame read from a file, or its dates
IndexKinds == {"RangeIndex", "DatetimeIndex"}

DateLabel(date) == [kind |-> "date", v |-> date]
RowLabel(kind, date) ==
    IF kind = "DatetimeIndex" THEN DateLabel(date) ELSE [kind |-> "row", v |-> date]

One == Rat(1, 1)
RatPlus(a, b) == Rat(a.num * b.den + b.num * a.den, a.den * b.den)
RatMul(a, b) == Rat(a.num * b.num, a.den * b.den)

\* values.pct_change() at position i >= 2
DailyReturn(values, i) == FloatDiv(values[i] - values[i - 1], values[i - 1])

\* symbol_data['Last Close'].pct_change().dropna(): the returns of the
\* symbol, under the row labels of the symbol's rows
SymbolReturns(closes, start, kind) ==
    [l \in {RowLabel(kind, start + i) : i \in 2..Len(closes)} |->
        DailyReturn(closes, l.v - start)]

\* df.groupby('Date')['Current Value'].sum().pct_change().dropna(): the
\* returns of the portfolio, under the dates
PortfolioReturns(daily) ==
    [l \in {DateLabel(d) : d \in 2..Len(daily)} |-> DailyReturn(daily, l.v)]

RECURSIVE InLabelOrder(_)
\* the labels of a set in ascending order
InLabelOrder(labels) ==
    IF labels = {} THEN <<>>
    ELSE LET first == CHOOSE l \in labels : \A o \in labels : l.v <= o.v
         IN  <<first>> \o InLabelOrder(labels \ {first})

\* pd.DataFrame({'symbol': returns, 'portfolio': portfolio_returns}).dropna():
\* one row per label, kept where both series have a value
AlignedReturns(returns, portfolio_returns) ==
    LET both == InLabelOrder(DOMAIN returns \cap DOMAIN portfolio_returns)
    IN  [i \in 1..Len(both) |->
            [symbol |-> returns[both[i]], portfolio |-> portfolio_returns[both[i]]]]

RECURSIVE RatSum(_, _)
\* the sum of s[1..i]
RatSum(s, i) == IF i = 0 THEN Zero ELSE RatPlus(RatSum(s, i - 1), s[i])

SeriesMean(s) == LET t == RatSum(s, Len(s)) IN Rat(t.num, t.den * Len(s))

\* x.cov(y): the sample covariance, NaN for fewer than two points
Covariance(x, y) ==
    IF Len(x) < 2 THEN NaN
    ELSE LET mx == SeriesMean(x)
             my == SeriesMean(y)
             products == [i \in 1..Len(x) |->
                             RatMul(RatMinus(x[i], mx), RatMinus(y[i], my))]
             t == RatSum(products, Len(x))
         IN  Rat(t.num, t.den * (Len(x) - 1))

\* x.var(): the sample variance
Variance(x) == Covariance(x, x)

\* the division without its guard: NaN where the variance is 0 or NaN
BetaRatio_unguarded(covariance, portfolio_variance) ==
    IF portfolio_variance.num # 0 /\ portfolio_variance.den # 0
       THEN RatOver(covariance, portfolio_variance)
       ELSE NaN

\* covariance / portfolio_variance if portfolio_variance > 0 else 1.0
BetaRatio(covariance, portfolio_variance) ==
    IF portfolio_variance # NaN /\ RatLess(Zero, portfolio_variance)
       THEN RatOver(covariance, portfolio_variance)
       ELSE One

\* the Beta of the aligned returns, 1.0 when there are none
Beta(aligned_returns) ==
    LET symbol == [i \in 1..Len(aligned_returns) |-> aligned_returns[i].symbol]
        portfolio == [i \in 1..Len(aligned_returns) |-> aligned_returns[i].portfolio]
    IN  IF Len(aligned_returns) > 0
           THEN BetaRatio(Covariance(symbol, portfolio), Variance(portfolio))
           ELSE One

RiskInit ==
    /\ portfolio_daily \in ValuationSeries
    /\ symbol_data \in ValuationSeries
    /\ symbol_start \in 0..MaxDays
    /\ symbol_start + Len(symbol_data) <= Len(portfolio_daily)
    /\ df_index \in IndexKinds
    /\ beta = NoneValue
    /\ drawdown = <<>>
    /\ max_drawdown = NoneValue
    /\ risk_info = "none"
    /\ rpc = "ready"

RiskIdle ==
    /\ portfolio_daily = <<>>
    /\ symbol_data = <<>>
    /\ symbol_start = 0
    /\ df_index = "RangeIndex"
    /\ beta = NoneValue
    /\ drawdown = <<>>
    /\ max_drawdown = NoneValue
    /\ risk_info = "none"
    /\ rpc = "idle"

\* _render_risk_summary: the max drawdown of the portfolio's daily value
_render_risk_summary ==
    /\ rpc = "ready"
    /\ IF Len(portfolio_daily) < 2
          THEN /\ risk_info' = "Insufficient data for risk analysis."
               /\ UNCHANGED <<drawdown, max_drawdown>>
          ELSE /\ drawdown' = Drawdown(portfolio_daily)
               /\ max_drawdown' = FloatValue(SeriesMin(drawdown', Len(drawdown')))
               /\ risk_info' = risk_info
    /\ rpc' = "_render_risk_summary"
    /\ UNCHANGED <<portfolio_daily, symbol_data, symbol_start, df_index, beta,
                   outsideRisk>>

\* _render_risk_table for one symbol: the max drawdown of its closing price
\* and its beta against the portfolio's returns
_render_risk_table ==
    /\ rpc = "ready"
    /\ IF Len(symbol_data) < 2
          THEN /\ risk_info' = "Insufficient data for risk metrics calculation."
               /\ UNCHANGED <<drawdown, max_drawdown, beta>>
          ELSE /\ drawdown' = Drawdown(symbol_data)
               /\ max_drawdown' = FloatValue(SeriesMin(drawdown', Len(drawdown')))
               /\ LET returns == SymbolReturns(symbol_data, symbol_start, df_index)
                      portfolio_returns == PortfolioReturns(portfolio_daily)
                  IN  beta' = FloatValue(Beta(AlignedReturns(returns, portfolio_returns)))
               /\ risk_info' = risk_info
    /\ rpc' = "_render_risk_table"
    /\ UNCHANGED <<portfolio_daily, symbol_data, symbol_start, df_index, outsideRisk>>

RiskNext ==
    \/ _render_risk_summary
    \/ _render_risk_table

-----------------------------------------------------------------------------
(* Stock tracker: the symbols currently owned, _get_filtered_symbols of     *)
(* ui/views/stock_tracker_view.py                                           *)

\* the most rows of a historical frame
MaxSnapshots == 3

\* tickers in the order of sorted()
TickerOrder == <<"AAPL", "MSFT">>
AccountNames == {"IRA", "Taxable"}
SnapshotDates == {1, 2}
Quantities == {0, 5}

TickerSnapshots ==
    [ticker : {TickerOrder[i] : i \in 1..Len(TickerOrder)}, account : AccountNames,
     Date : SnapshotDates, quantity : Quantities]

\* a position has one snapshot per date
OneSnapshotPerDate(d) ==
    \A i, j \in 1..Len(d) :
        (d[i].ticker = d[j].ticker /\ d[i].account = d[j].account
         /\ d[i].Date = d[j].Date) => i = j

HistoricalFrames ==
    {d \in UNION {[1..n -> TickerSnapshots] : n \in 0..MaxSnapshots} : OneSnapshotPerDate(d)}

\* historical_df.sort_values(date_col): the orders the default sort, which
\* is not stable, can leave the rows in; rows of one date in any order
SortValuesByDate(rows) ==
    LET n == Len(rows)
        perms == {p \in [1..n -> 1..n] : \A i, j \in 1..n : i # j => p[i] # p[j]}
    IN  {[i \in 1..n |-> rows[p[i]]] : p \in
            {q \in perms : \A i \in 1..n : i < n =>
                rows[q[i]].Date <= rows[q[i + 1]].Date}}

\* .groupby(ticker_col).last(): the last row of the ticker in the order given
LastOf(rows, ticker) ==
    LET at == CHOOSE i \in 1..Len(rows) :
                  /\ rows[i].ticker = ticker
                  /\ \A j \in (i + 1)..Len(rows) : rows[j].ticker # ticker
    IN  rows[at]

RECURSIVE CurrentlyOwned(_, _)
\* sorted(latest_data[latest_data[quantity_col] > 0][ticker_col]): i walks
\* the tickers in sorted order
CurrentlyOwned(rows, i) ==
    IF i > Len(TickerOrder) THEN <<>>
    ELSE (IF /\ \E k \in 1..Len(rows) : rows[k].ticker = TickerOrder[i]
             /\ LastOf(rows, TickerOrder[i]).quantity > 0
             THEN <<TickerOrder[i]>> ELSE <<>>)
         \o CurrentlyOwned(rows, i + 1)

SymbolsInit ==
    /\ historical_df \in HistoricalFrames
    /\ filtered_symbols = <<>>
    /\ spc = "call"

SymbolsIdle ==
    /\ historical_df = <<>>
    /\ filtered_symbols = <<>>
    /\ spc = "idle"

\* _get_filtered_symbols on a frame with its date, ticker and quantity columns
_get_filtered_symbols ==
    /\ spc = "call"
    /\ \E sorted_df \in SortValuesByDate(historical_df) :
          filtered_symbols' = CurrentlyOwned(sorted_df, 1)
    /\ spc' = "returned"
    /\ UNCHANGED <<historical_df, outsideSymbols>>

SymbolsNext == _get_filtered_symbols

-----------------------------------------------------------------------------
(* Stock tracker: create_cost_basis_comparison of ui/charts.py, the cost    *)
(* basis and portfolio value lines with the index overlay                   *)

\* the most dates of the daily totals
MaxChartDays == 3

CostBasisValues == {100, 200}
IndexPrices == {50, 100}
ChartDates == 1..MaxChartDays

\* historical_df.groupby('Date').agg(sum).reset_index().sort_values('Date')
DailyTotals ==
    UNION {{[i \in 1..n |-> [Date |-> i, cost_basis |-> c[i], current_value |-> 150]] :
               c \in [1..n -> CostBasisValues]} : n \in 0..MaxChartDays}

\* sp500.history(start, end): it raises (no network, service unavailable),
\* or returns closing prices for some dates, possibly none
IndexFetches ==
    {[kind |-> "raises", prices |-> <<>>]}
    \cup {[kind |-> "history", prices |-> p] :
              p \in UNION {[D -> IndexPrices] : D \in SUBSET ChartDates}}

\* daily_totals['Cost Basis'].diff().fillna(daily_totals['Cost Basis'])
Cost_Change(totals, i) ==
    IF i = 1 THEN totals[1].cost_basis
    ELSE totals[i].cost_basis - totals[i - 1].cost_basis

RECURSIVE Sp500Shares(_, _, _)
\* sp500_shares after the rows 1..i: cost_change / sp500_price is bought on
\* every date that has a price and new money
Sp500Shares(totals, prices, i) ==
    IF i = 0 THEN Zero
    ELSE LET before == Sp500Shares(totals, prices, i - 1)
         IN  IF totals[i].Date \in DOMAIN prices /\ Cost_Change(totals, i) > 0
                THEN RatPlus(before, FloatDiv(Cost_Change(totals, i), prices[totals[i].Date]))
                ELSE before

RECURSIVE Sp500Values(_, _, _)
\* sp500_values: one point per date of the totals that has a price
Sp500Values(totals, prices, i) ==
    IF i = 0 THEN <<>>
    ELSE Sp500Values(totals, prices, i - 1)
         \o (IF totals[i].Date \in DOMAIN prices
                THEN <<[Date |-> totals[i].Date,
                        Value |-> RatTimes(Sp500Shares(totals, prices, i),
                                           prices[totals[i].Date])]>>
                ELSE <<>>)

\* the body of the try block for a lookup that returned: the traces it adds
IndexOverlay(totals, prices) ==
    IF DOMAIN prices = {} THEN <<>>
    ELSE LET sp500_values == Sp500Values(totals, prices, Len(totals))
         IN  IF sp500_values # <<>>
                THEN <<[name |-> "S&P 500 (If Invested Same Amounts)",
                        points |-> sp500_values]>>
                ELSE <<>>

\* the try block without its except clause
TryIndexOverlay_uncaught(totals, fetch) ==
    IF fetch.kind = "raises"
        THEN [raised |-> "Exception", traces |-> <<>>]
        ELSE [raised |-> "none", traces |-> IndexOverlay(totals, fetch.prices)]

\* try: ... except Exception as e: print(...)
TryIndexOverlay(totals, fetch) ==
    IF fetch.kind = "raises"
        THEN [raised |-> "none", traces |-> <<>>]
        ELSE [raised |-> "none", traces |-> IndexOverlay(totals, fetch.prices)]

\* the two traces added before the lookup
BaseTraces(totals) ==
    <<[name |-> "Cost Basis (Total Invested)",
       points |-> [i \in 1..Len(totals) |->
                      [Date |-> totals[i].Date, Value |-> Rat(totals[i].cost_basis, 1)]]],
      [name |-> "Portfolio Value",
       points |-> [i \in 1..Len(totals) |->
                      [Date |-> totals[i].Date, Value |-> Rat(totals[i].current_value, 1)]]]>>

ChartInit ==
    /\ daily_totals \in DailyTotals
    /\ index_fetch \in IndexFetches
    /\ fig = NoneValue
    /\ chart_raised = "none"
    /\ cpc = "call"

ChartIdle ==
    /\ daily_totals = <<>>
    /\ index_fetch = [kind |-> "raises", prices |-> <<>>]
    /\ fig = NoneValue
    /\ chart_raised = "none"
    /\ cpc = "idle"

create_cost_basis_comparison ==
    /\ cpc = "call"
    /\ IF Len(daily_totals) < 2
          THEN fig' = NoneValue /\ chart_raised' = chart_raised
          ELSE LET overlay == TryIndexOverlay(daily_totals, index_fetch)
               IN  IF overlay.raised # "none"
                      THEN fig' = NoneValue /\ chart_raised' = overlay.raised
                      ELSE /\ fig' = [kind |-> "Figure",
                                      traces |-> BaseTraces(daily_totals) \o overlay.traces]
                           /\ chart_raised' = chart_raised
    /\ cpc' = "returned"
    /\ UNCHANGED <<daily_totals, index_fetch, outsideChart>>

ChartNext == create_cost_basis_comparison


-----------------------------------------------------------------------------
(* Account selection of the net worth sidebar                               *)
(* (render_networth_sidebar_filters) behind the header's filters            *)
(* (render_networth_tracker).  Every interaction of the user starts one run *)
(* of the script; a button's handler ends its run with st.rerun(), which    *)
(* starts a further run.  The expander states and the figures of the        *)
(* summary are not part of the model.                                       *)

\* the accounts of the data in the order of their first row, as letters
SidebarAccountOrder == <<"Cash", "CD", "Roth">>
SidebarAccounts == {SidebarAccountOrder[i] : i \in 1..Len(SidebarAccountOrder)}
AccountLetters ==
    [a \in SidebarAccounts |->
        CASE a = "Cash" -> <<"C", "a", "s", "h">>
          [] a = "CD" -> <<"C", "D">>
          [] a = "Roth" -> <<"R", "o", "t", "h">>]

\* account_info[acc]['type']
AccountTypeOf ==
    [a \in SidebarAccounts |-> IF a = "Roth" THEN "Retirement" ELSE "Bank"]
SidebarAccountTypes == {AccountTypeOf[a] : a \in SidebarAccounts}
\* sorted(grouped_accounts.keys())
SortedAccountTypes == <<"Bank", "Retirement">>

\* what the user may type into the search box
SearchTexts == {<<>>, <<"c">>, <<"T", "H">>, <<"x">>}

\* str.lower() of one letter
LowerLetter(c) ==
    CASE c = "C" -> "c"
      [] c = "D" -> "d"
      [] c = "R" -> "r"
      [] c = "T" -> "t"
      [] c = "H" -> "h"
      [] OTHER -> c

Lower(text) == [i \in 1..Len(text) |-> LowerLetter(text[i])]

\* needle in text
Contains(text, needle) ==
    \E start \in 0..(Len(text) - Len(needle)) :
        \A i \in 1..Len(needle) : text[start + i] = needle[i]

\* get_filtered_accounts: the accounts of the selected types, in data order
get_filtered_accounts(account_types) ==
    SelectSeq(SidebarAccountOrder, LAMBDA a : AccountTypeOf[a] \in account_types)

\* [a for a in accounts if search.lower() in a.lower()], or accounts when the
\* search box is empty
FilteredAccounts(accounts, text) ==
    IF text # <<>>
       THEN SelectSeq(accounts,
                      LAMBDA a : Contains(Lower(AccountLetters[a]), Lower(text)))
       ELSE accounts

\* grouped_accounts[acct_type]
GroupAccounts(filtered_accounts, acct_type) ==
    SelectSeq(filtered_accounts, LAMBDA a : AccountTypeOf[a] = acct_type)

\* the accounts in the order their checkboxes are drawn: type by type
DrawOrder(filtered_accounts, upto) ==
    IF upto = 0 THEN <<>>
    ELSE IF upto = 1 THEN GroupAccounts(filtered_accounts, SortedAccountTypes[1])
    ELSE GroupAccounts(filtered_accounts, SortedAccountTypes[1])
            \o GroupAccounts(filtered_accounts, SortedAccountTypes[2])

SeqSet(s) == {s[i] : i \in 1..Len(s)}

Present(list) == [present |-> TRUE, list |-> list]
Absent == [present |-> FALSE, list |-> <<>>]

\* list.remove(acc)
RemoveFirst(list, acc) ==
    LET at == CHOOSE i \in 1..Len(list) : list[i] = acc /\ \A j \in 1..(i - 1) : list[j] # acc
    IN  SubSeq(list, 1, at - 1) \o SubSeq(list, at + 1, Len(list))

\* the checkbox of one account (lines 213-225): a checkbox whose key is in
\* the session state shows that value, any other one value=is_selected
Checkbox(state, acc) ==
    LET is_selected == acc \in SeqSet(state.selected)
        checked == IF state.checks[acc] = "absent" THEN is_selected
                   ELSE state.checks[acc] = "True"
    IN  [selected |->
            IF checked
               THEN IF acc \notin SeqSet(state.selected)
                       THEN state.selected \o <<acc>> ELSE state.selected
               ELSE IF acc \in SeqSet(state.selected)
                       THEN RemoveFirst(state.selected, acc) ELSE state.selected,
         checks |-> [state.checks EXCEPT ![acc] = IF checked THEN "True" ELSE "False"]]

RECURSIVE Checkboxes(_, _, _)
\* the checkboxes of drawn[1..n], in order
Checkboxes(state, drawn, n) ==
    IF n = 0 THEN state ELSE Checkbox(Checkboxes(state, drawn, n - 1), drawn[n])

\* if 'selected_accounts' not in st.session_state (lines 118-119)
Initialised(selection, accounts) ==
    IF selection.present THEN selection.list ELSE accounts

\* Streamlit forgets the state of a widget that a finished run did not draw
ForgetUndrawn(checks, drawn) ==
    [a \in SidebarAccounts |-> IF a \in SeqSet(drawn) THEN checks[a] ELSE "absent"]

\* a run of the sidebar in which no button is pressed, to its return
RunToEnd(account_types, text, checks) ==
    LET accounts == get_filtered_accounts(account_types)
        filtered_accounts == FilteredAccounts(accounts, text)
        start == [selected |-> Initialised(selected_accounts, accounts),
                  checks |-> checks]
        drawn == DrawOrder(filtered_accounts, Len(SortedAccountTypes))
        end == Checkboxes(start, drawn, Len(drawn))
    IN  /\ selected_account_types' = account_types
        /\ search' = text
        /\ IF filtered_accounts = <<>>
              THEN /\ selected_accounts' = Present(start.selected)
                   /\ check_state' = ForgetUndrawn(checks, <<>>)
                   /\ sidebar_ret' = <<>>
              ELSE /\ selected_accounts' = Present(end.selected)
                   /\ check_state' = ForgetUndrawn(end.checks, drawn)
                   /\ sidebar_ret' = end.selected
        /\ sbpc' = "wait"

\* the header filter offers the account types; with none selected the view
\* returns before the sidebar
HeaderSelections == (SUBSET SidebarAccountTypes) \ {{}}

SidebarInit ==
    /\ selected_account_types \in HeaderSelections
    /\ search = <<>>
    /\ selected_accounts = Absent
    /\ check_state = [a \in SidebarAccounts |-> "absent"]
    /\ sidebar_ret = <<>>
    /\ sbpc = "run"

SidebarIdle ==
    /\ selected_account_types = {}
    /\ search = <<>>
    /\ selected_accounts = Absent
    /\ check_state = [a \in SidebarAccounts |-> "absent"]
    /\ sidebar_ret = <<>>
    /\ sbpc = "idle"

\* the first run of a session, or the run st.rerun() asked for
render_networth_sidebar_filters ==
    /\ sbpc = "run"
    /\ RunToEnd(selected_account_types, search, check_state)
    /\ UNCHANGED outsideSidebar

\* the user ticks or unticks a drawn checkbox
toggle_checkbox ==
    /\ sbpc = "wait"
    /\ \E acc \in SeqSet(FilteredAccounts(get_filtered_accounts(selected_account_types),
                                          search)) :
          /\ check_state[acc] # "absent"
          /\ RunToEnd(selected_account_types, search,
                      [check_state EXCEPT
                          ![acc] = IF check_state[acc] = "True" THEN "False" ELSE "True"])
    /\ UNCHANGED outsideSidebar

\* the user changes the text of the search box
change_search ==
    /\ sbpc = "wait"
    /\ \E text \in SearchTexts \ {search} :
          RunToEnd(selected_account_types, text, check_state)
    /\ UNCHANGED outsideSidebar

\* the user changes the account types of the header filter
change_header_filters ==
    /\ sbpc = "wait"
    /\ \E account_types \in HeaderSelections \ {selected_account_types} :
          RunToEnd(account_types, search, check_state)
    /\ UNCHANGED outsideSidebar

\* the buttons are drawn when some account is (lines 148-150)
ButtonsDrawn ==
    /\ sbpc = "wait"
    /\ FilteredAccounts(get_filtered_accounts(selected_account_types), search) # <<>>

\* "Select All" of the quick actions (lines 165-169)
select_all ==
    /\ ButtonsDrawn
    /\ LET accounts == get_filtered_accounts(selected_account_types)
       IN  /\ selected_accounts' = Present(accounts)
           /\ check_state' = [a \in SidebarAccounts |->
                                 IF a \in SeqSet(accounts) THEN "True" ELSE check_state[a]]
    /\ sbpc' = "run"
    /\ UNCHANGED <<selected_account_types, search, sidebar_ret, outsideSidebar>>

\* "Clear All" of the quick actions (lines 172-176)
clear_all ==
    /\ ButtonsDrawn
    /\ LET accounts == get_filtered_accounts(selected_account_types)
       IN  /\ selected_accounts' = Present(<<>>)
           /\ check_state' = [a \in SidebarAccounts |->
                                 IF a \in SeqSet(accounts) THEN "False" ELSE check_state[a]]
    /\ sbpc' = "run"
    /\ UNCHANGED <<selected_account_types, search, sidebar_ret, outsideSidebar>>

\* list(set): the elements in an order of the set's own
ListsOf(S) ==
    {l \in UNION {[1..n -> S] : n \in 0..Len(SidebarAccountOrder)} :
        /\ Len(l) = Cardinality(S)
        /\ SeqSet(l) = S}

\* the state of a run at the buttons of the k-th group: the checkboxes of
\* the groups before it are drawn
BeforeGroup(k) ==
    LET filtered_accounts ==
            FilteredAccounts(get_filtered_accounts(selected_account_types), search)
        drawn == DrawOrder(filtered_accounts, k - 1)
    IN  Checkboxes([selected |-> selected_accounts.list, checks |-> check_state],
                   drawn, Len(drawn))

\* "Select All" of one group (lines 195-201)
select_all_group ==
    /\ ButtonsDrawn
    /\ \E k \in 1..Len(SortedAccountTypes) :
          LET accts == GroupAccounts(
                         FilteredAccounts(get_filtered_accounts(selected_account_types),
                                          search), SortedAccountTypes[k])
              before == BeforeGroup(k)
          IN  /\ accts # <<>>
              /\ \E list \in ListsOf(SeqSet(before.selected) \cup SeqSet(accts)) :
                    selected_accounts' = Present(list)
              /\ check_state' = [a \in SidebarAccounts |->
                                    IF a \in SeqSet(accts) THEN "True" ELSE before.checks[a]]
    /\ sbpc' = "run"
    /\ UNCHANGED <<selected_account_types, search, sidebar_ret, outsideSidebar>>

\* "Clear All" of one group (lines 204-210)
clear_all_group ==
    /\ ButtonsDrawn
    /\ \E k \in 1..Len(SortedAccountTypes) :
          LET accts == GroupAccounts(
                         FilteredAccounts(get_filtered_accounts(selected_account_types),
                                          search), SortedAccountTypes[k])
              before == BeforeGroup(k)
          IN  /\ accts # <<>>
              /\ selected_accounts' =
                    Present(SelectSeq(before.selected, LAMBDA a : a \notin SeqSet(accts)))
              /\ check_state' = [a \in SidebarAccounts |->
                                    IF a \in SeqSet(accts) THEN "False" ELSE before.checks[a]]
    /\ sbpc' = "run"
    /\ UNCHANGED <<selected_account_types, search, sidebar_ret, outsideSidebar>>

SidebarNext ==
    \/ render_networth_sidebar_filters
    \/ toggle_checkbox
    \/ change_search
    \/ change_header_filters
    \/ select_all
    \/ clear_all
    \/ select_all_group
    \/ clear_all_group

-----------------------------------------------------------------------------
(* The closed form of calculate_months_to_goal next to the compounding      *)
(* steps: goals between and on the first steps of 40000 at 6 % a year,      *)
(* compounded monthly (40200 after one month, 40401 after two)              *)

ClosedFormCurrentValues == {0, 40000}
ClosedFormGoalAmounts == {40100, 40300, 40401}

ClosedFormArgsInit ==
    /\ current_value \in ClosedFormCurrentValues
    /\ goal_amount \in ClosedFormGoalAmounts
    /\ monthly_contribution \in {0, 100}
    /\ annual_return_rate \in {0, 6}
    /\ compound_freq = "monthly"

-----------------------------------------------------------------------------
(* Specifications: one per component, each over the arguments of its calls *)

InitBudget ==
    /\ BudgetInit /\ GoalArgsIdle /\ GoalIdle /\ ProjIdle /\ PeriodIdle
    /\ MetricsIdle /\ ExpenseIdle /\ RiskIdle
    /\ SymbolsIdle
    /\ ChartIdle
    /\ SidebarIdle
SpecBudget == InitBudget /\ [][BudgetNext]_vars

InitGoal ==
    /\ GoalArgsInit /\ max_months = 0
    /\ months = 0 /\ balance = 0 /\ ret = NoneValue /\ gpc = "call"
    /\ ProjIdle /\ BudgetIdle /\ PeriodIdle
    /\ MetricsIdle /\ ExpenseIdle /\ RiskIdle
    /\ SymbolsIdle
    /\ ChartIdle
    /\ SidebarIdle
SpecGoal == InitGoal /\ [][GoalNext]_vars

InitClosedForm ==
    /\ ClosedFormArgsInit /\ max_months = 0
    /\ months = 0 /\ balance = 0 /\ ret = NoneValue /\ gpc = "call"
    /\ ProjIdle /\ BudgetIdle /\ PeriodIdle
    /\ MetricsIdle /\ ExpenseIdle /\ RiskIdle
    /\ SymbolsIdle
    /\ ChartIdle
    /\ SidebarIdle
SpecClosedForm == InitClosedForm /\ [][GoalNext]_vars

\* the months to the goal, then the projection up to int(months)
InitGoalTrace ==
    /\ ClosedFormArgsInit /\ max_months = 0
    /\ months = 0 /\ balance = 0 /\ ret = NoneValue /\ gpc = "call"
    /\ month = 0 /\ proj_balance = 0 /\ total_contributions = 0
    /\ projection_df = <<>> /\ ppc = "pending"
    /\ BudgetIdle /\ PeriodIdle /\ MetricsIdle /\ ExpenseIdle /\ RiskIdle
    /\ SymbolsIdle /\ ChartIdle /\ SidebarIdle
GoalTraceNext ==
    \/ GoalNext
    \/ show_growth_projections
    \/ ProjNext
SpecGoalTrace == InitGoalTrace /\ [][GoalTraceNext]_vars

InitProjection ==
    /\ ProjArgsInit
    /\ month = 0 /\ proj_balance = 0 /\ total_contributions = 0
    /\ projection_df = <<>> /\ ppc = "call"
    /\ GoalIdle /\ BudgetIdle /\ PeriodIdle
    /\ MetricsIdle /\ ExpenseIdle /\ RiskIdle
    /\ SymbolsIdle
    /\ ChartIdle
    /\ SidebarIdle
SpecProjection == InitProjection /\ [][ProjNext]_vars

InitPeriod ==
    /\ PeriodArgsInit
    /\ GrowthInit /\ vpc = "call"
    /\ PivotInit /\ tpc = "call"
    /\ BudgetIdle /\ GoalArgsIdle /\ GoalIdle /\ ProjIdle
    /\ MetricsIdle /\ ExpenseIdle /\ RiskIdle
    /\ SymbolsIdle
    /\ ChartIdle
    /\ SidebarIdle
SpecPeriod == InitPeriod /\ [][PeriodNext]_vars

InitMetrics ==
    /\ MetricsInit
    /\ BudgetIdle /\ GoalArgsIdle /\ GoalIdle /\ ProjIdle /\ PeriodIdle
    /\ ExpenseIdle /\ RiskIdle
    /\ SymbolsIdle
    /\ ChartIdle
    /\ SidebarIdle
SpecMetrics == InitMetrics /\ [][MetricsNext]_vars

InitExpense ==
    /\ ExpenseInit
    /\ BudgetIdle /\ GoalArgsIdle /\ GoalIdle /\ ProjIdle /\ PeriodIdle
    /\ MetricsIdle /\ RiskIdle
    /\ SymbolsIdle
    /\ ChartIdle
    /\ SidebarIdle
SpecExpense == InitExpense /\ [][ExpenseNext]_vars

InitRisk ==
    /\ RiskInit
    /\ BudgetIdle /\ GoalArgsIdle /\ GoalIdle /\ ProjIdle /\ PeriodIdle
    /\ MetricsIdle /\ ExpenseIdle
    /\ SymbolsIdle
    /\ ChartIdle
    /\ SidebarIdle
SpecRisk == InitRisk /\ [][RiskNext]_vars

InitSymbols ==
    /\ SymbolsInit
    /\ BudgetIdle /\ GoalArgsIdle /\ GoalIdle /\ ProjIdle /\ PeriodIdle
    /\ MetricsIdle /\ ExpenseIdle /\ RiskIdle
    /\ ChartIdle
    /\ SidebarIdle
SpecSymbols == InitSymbols /\ [][SymbolsNext]_vars

InitChart ==
    /\ ChartInit
    /\ BudgetIdle /\ GoalArgsIdle /\ GoalIdle /\ ProjIdle /\ PeriodIdle
    /\ MetricsIdle /\ ExpenseIdle /\ SymbolsIdle /\ RiskIdle
    /\ SidebarIdle
SpecChart == InitChart /\ [][ChartNext]_vars

InitSidebar ==
    /\ SidebarInit
    /\ BudgetIdle /\ GoalArgsIdle /\ GoalIdle /\ ProjIdle /\ PeriodIdle
    /\ MetricsIdle /\ ExpenseIdle /\ SymbolsIdle /\ ChartIdle /\ RiskIdle
SpecSidebar == InitSidebar /\ [][SidebarNext]_vars

-----------------------------------------------------------------------------
(* Properties of the budget comparison and the category aggregation *)

BudgetComparisonReturned ==
    /\ bpc \in {"calculate_budget_comparison", "expense_calculate_budget_comparison"}
    /\ raised = "none"

\* C1: for every category of the budget table and num_months >= 1 the row has
\* Budget = monthly_budget * num_months, Remaining = Budget - Spent, and
\* Percentage = Spent / Budget * 100 when Budget > 0, exactly 0 when Budget = 0.
C1_BudgetRowArithmetic ==
    (BudgetComparisonReturned /\ num_months >= 1) =>
        /\ Len(budget_df) = Len(budgets)
        /\ \A i \in 1..Len(budgets) :
              LET row == budget_df[i]
              IN  /\ row.Category = budgets[i].category
                  /\ row.Budget = budgets[i].monthly_budget * num_months
                  /\ row.Remaining = row.Budget - row.Spent
                  /\ row.Budget > 0 =>
                        /\ row.Percentage.den > 0
                        /\ row.Percentage.num * row.Budget
                              = row.Spent * 100 * row.Percentage.den
                  /\ row.Budget = 0 => row.Percentage = Zero

\* a comparison over several months with an over-budget row (negative
\* Remaining, Percentage above 100) and a zero-budget row that has spending
C1_Witness ==
    /\ BudgetComparisonReturned
    /\ num_months >= 2
    /\ \E i \in 1..Len(budget_df) :
          /\ budget_df[i].Budget > 0
          /\ budget_df[i].Remaining < 0
          /\ budget_df[i].Percentage.num > 100 * budget_df[i].Percentage.den
    /\ \E i \in 1..Len(budget_df) :
          budget_df[i].Budget = 0 /\ budget_df[i].Spent > 0

\* the signed amounts of category c, summed over the row indices
RECURSIVE NetOver(_, _, _)
NetOver(d, c, I) ==
    IF I = {} THEN 0
    ELSE LET i == CHOOSE x \in I : TRUE
         IN  (IF d[i].category = c THEN d[i].amount ELSE 0) + NetOver(d, c, I \ {i})

NetAmount(d, c) == NetOver(d, c, DOMAIN d)

\* C2: aggregation by category nets the signs: every reported amount is
\* |sum of the signed amounts| of its group, in calculate_category_spending
\* and in the Spent column of calculate_budget_comparison.
C2_SignNetting ==
    /\ bpc = "calculate_category_spending" =>
          /\ {category_spending[i].category : i \in 1..Len(category_spending)}
                = {df[i].category : i \in 1..Len(df)}
          /\ \A i \in 1..Len(category_spending) :
                category_spending[i].amount
                    = Abs(NetAmount(df, category_spending[i].category))
    /\ BudgetComparisonReturned =>
          \A i \in 1..Len(budget_df) :
              budget_df[i].Spent = Abs(NetAmount(df, budget_df[i].Category))

\* +50 and -50 in one category: the aggregate is 0
C2_Witness ==
    /\ bpc = "calculate_category_spending"
    /\ \E i, j \in 1..Len(df) :
          /\ df[i].category = df[j].category
          /\ df[i].amount = 50
          /\ df[j].amount = -50
          /\ Len(df) = 2
          /\ category_spending = <<[category |-> df[i].category, amount |-> 0]>>

\* the same netting seen in the Spent column
C2_WitnessSpent ==
    /\ BudgetComparisonReturned
    /\ \E i \in 1..Len(budget_df) :
          /\ budget_df[i].Spent = 20
          /\ \E j, k \in 1..Len(df) :
                /\ df[j].category = budget_df[i].Category
                /\ df[k].category = budget_df[i].Category
                /\ df[j].amount = 50
                /\ df[k].amount = -30

\* C15: calculate_budget_comparison returns exactly one row per category of
\* the budget table, in the table's order; a budget category without
\* transactions gets Spent = 0, and a category with transactions but no budget
\* entry gets no row.
C15_OneRowPerBudgetCategory ==
    (BudgetComparisonReturned /\ num_months >= 1) =>
        /\ Len(budget_df) = Len(budgets)
        /\ \A i \in 1..Len(budget_df) :
              /\ budget_df[i].Category = budgets[i].category
              /\ ~HasCategory(df, budgets[i].category) => budget_df[i].Spent = 0
        /\ \A c \in Categories :
              (HasCategory(df, c) /\ \A i \in 1..Len(budgets) : budgets[i].category # c)
                  => \A k \in 1..Len(budget_df) : budget_df[k].Category # c

\* a comparison of a budget table that names a category without transactions
\* and leaves out a category that has some
C15_Witness ==
    /\ BudgetComparisonReturned /\ num_months >= 1
    /\ \E i \in 1..Len(budgets) : ~HasCategory(df, budgets[i].category)
    /\ \E c \in Categories :
          HasCategory(df, c) /\ \A i \in 1..Len(budgets) : budgets[i].category # c

-----------------------------------------------------------------------------
(* Properties of calculate_months_to_goal *)

\* goal above the current value, rate and contribution both nonzero
GeneralCase ==
    /\ goal_amount > current_value
    /\ monthly_rate.num # 0
    /\ monthly_contribution # 0

\* C3: in the general case the function returns the smallest month count m,
\* 1 <= m <= 1200, at which the simulated balance first reaches the goal, and
\* None only when the balance is still below the goal after 1200 steps; the
\* loop ends within 1200 iterations.
C3_MonthsToGoalGeneral ==
    (gpc = "returned" /\ GeneralCase) =>
        /\ months <= MaxMonthsCap
        /\ balance = BalanceAfter(current_value, monthly_rate, monthly_contribution, months)
        /\ IF balance >= goal_amount
              THEN /\ months >= 1
                   /\ BalanceAfter(current_value, monthly_rate, monthly_contribution,
                                   months - 1) < goal_amount
                   /\ ret = IntValue(months)
              ELSE /\ months = MaxMonthsCap
                   /\ ret = NoneValue

\* C16: calculate_months_to_goal returns 0 whenever goal_amount <=
\* current_value, for every contribution, rate and compounding mode; the
\* goal-met test comes before the unreachable tests.
C16_GoalAlreadyMet ==
    (gpc = "returned" /\ goal_amount <= current_value) => ret = IntValue(0)

\* 0 was returned for a goal already met with no contribution and no growth
C16_Witness ==
    /\ gpc = "returned" /\ ret = IntValue(0)
    /\ goal_amount <= current_value
    /\ monthly_contribution = 0 /\ annual_return_rate = 0

\* 0 was returned for a goal strictly below the current value
C16_WitnessBelow ==
    /\ gpc = "returned" /\ ret = IntValue(0)
    /\ goal_amount < current_value

\* C17: with goal > current and a per-month rate of 0, calculate_months_to_goal
\* returns None when the monthly contribution is 0 and exactly
\* (goal - current) / contribution when it is > 0; nothing is divided by zero.
C17_ZeroRate ==
    (gpc = "returned" /\ goal_amount > current_value /\ monthly_rate.num = 0) =>
        /\ monthly_contribution = 0 => ret = NoneValue
        /\ monthly_contribution > 0 =>
              /\ ret.kind = "float"
              /\ ret.value.den > 0
              /\ ret.value.num * monthly_contribution
                    = (goal_amount - current_value) * ret.value.den
        /\ ret.kind = "float" => monthly_contribution # 0

\* the quotient was returned for a zero rate and a positive contribution
C17_Witness ==
    /\ gpc = "returned" /\ goal_amount > current_value /\ monthly_rate.num = 0
    /\ monthly_contribution > 0 /\ current_value > 0
    /\ ret.kind = "float"

\* None was returned for a zero rate and no contribution
C17_WitnessNone ==
    /\ gpc = "returned" /\ goal_amount > current_value /\ monthly_rate.num = 0
    /\ monthly_contribution = 0
    /\ ret = NoneValue

\* the number of steps balance = balance * (1 + rate) takes from current to
\* first reach goal
SimulationSteps(goal, current, rate) ==
    PowerSteps(Rat(1, 1), FloatDiv(goal, current), rate, 0).steps

\* a closed-form value rounded up to a whole month: the exact quotient of the
\* logarithms is a whole number exactly when the goal lies on a compounding
\* step, and a float just above it rounds up to the next month
RoundedUp(v) ==
    LET exact == PowerSteps(Rat(1, 1), v.ratio, v.rate, 0)
    IN  IF exact.tie /\ v.err > 0 THEN exact.steps + 1 ELSE exact.steps

LogBranch ==
    /\ gpc = "returned"
    /\ goal_amount > current_value
    /\ monthly_contribution = 0
    /\ monthly_rate.num > 0

\* C18: for a goal above the current value, monthly contribution 0 and monthly
\* rate > 0, calculate_months_to_goal returns None when current_value <= 0 and
\* otherwise ln(goal/current) / ln(1 + monthly_rate), and this value rounded up
\* to a whole month equals the number of steps the simulation balance =
\* balance * (1 + rate) needs for the balance to first reach the goal.
C18_LogClosedForm ==
    LogBranch =>
        IF current_value <= 0
            THEN ret = NoneValue
            ELSE /\ ret.kind = "log"
                 /\ ret.ratio = FloatDiv(goal_amount, current_value)
                 /\ ret.rate = monthly_rate
                 /\ RoundedUp(ret) = SimulationSteps(goal_amount, current_value, monthly_rate)

\* C18 with the rounded value allowed to be one month above the step count
C18_LogClosedFormUpToRounding ==
    LogBranch =>
        IF current_value <= 0
            THEN ret = NoneValue
            ELSE /\ ret.kind = "log"
                 /\ ret.ratio = FloatDiv(goal_amount, current_value)
                 /\ ret.rate = monthly_rate
                 /\ RoundedUp(ret) - SimulationSteps(goal_amount, current_value, monthly_rate)
                        \in {0, 1}

\* the sign of a returned month count: for the closed form, ln(ratio) and
\* ln(1 + rate) have the signs of ratio - 1 and of rate
StrictlyPositive(m) ==
    CASE m.kind = "int" -> m.value > 0
      [] m.kind = "float" -> m.value.num > 0 /\ m.value.den > 0
      [] m.kind = "log" ->
            \/ (m.ratio.num > m.ratio.den /\ m.rate.num > 0)
            \/ (m.ratio.num < m.ratio.den /\ m.rate.num < 0)
      [] OTHER -> FALSE

C29_MonthsPositiveForGrowth ==
    (gpc = "returned" /\ goal_amount > current_value /\ annual_return_rate >= 0) =>
        (ret = NoneValue \/ StrictlyPositive(ret))

-----------------------------------------------------------------------------
(* Properties of the projection drawn up to the months to the goal *)

\* the projection of show_growth_projections has been generated
TraceGenerated == gpc = "returned" /\ ppc = "returned" /\ ret # NoneValue

\* C28: whenever calculate_months_to_goal returns a number m > 0, from the
\* iteration or from either closed form, whole or fractional, the trace
\* generated with max_months = int(m) ends with a row whose Balance is at
\* least the goal.
C28_TraceReachesGoal ==
    (TraceGenerated /\ goal_amount > current_value) =>
        projection_df[Len(projection_df)].Balance >= goal_amount

\* C28 for the months counted by the iteration, which are whole
C28_TraceReachesGoalIterated ==
    (TraceGenerated /\ ret.kind = "int" /\ goal_amount > current_value) =>
        /\ Len(projection_df) = ret.value + 1
        /\ projection_df[Len(projection_df)].Balance >= goal_amount

-----------------------------------------------------------------------------
(* Properties of generate_projection_data *)

\* C4: row k of the trace has Month = k, Contributions = k * monthly_contribution
\* and Balance = current_value + Contributions + Growth; row 0 has
\* Balance = current_value, Contributions = 0 and Growth = 0.
C4_ProjectionDecomposition ==
    \A i \in 1..Len(projection_df) :
        LET row == projection_df[i]
        IN  /\ row.Month = i - 1
            /\ row.Contributions = (i - 1) * monthly_contribution
            /\ row.Balance = current_value + row.Contributions + row.Growth
            /\ i = 1 => (row.Balance = current_value /\ row.Contributions = 0
                         /\ row.Growth = 0)

\* a returned trace of at least three rows with contributions and growth
C4_Witness ==
    /\ ppc = "returned"
    /\ Len(projection_df) >= 3
    /\ projection_df[3].Contributions = 200
    /\ projection_df[3].Growth > 0
    /\ projection_df[3].Balance > current_value + 200

\* C5: the trace stops at the first month whose balance >= goal: every row but
\* the last has Balance < goal, there are at most max_months + 1 rows, and a
\* last row below the goal means the trace ran to the cap, max_months + 1 rows.
C5_ProjectionStops ==
    ppc = "returned" =>
        LET n == Len(projection_df)
        IN  /\ n >= 1
            /\ n <= max_months + 1
            /\ \A i \in 1..(n - 1) : projection_df[i].Balance < goal_amount
            /\ projection_df[n].Balance < goal_amount => n = max_months + 1

\* a trace that ended early, after several months, on reaching the goal
C5_Witness ==
    /\ ppc = "returned"
    /\ Len(projection_df) >= 3
    /\ Len(projection_df) < max_months + 1
    /\ projection_df[Len(projection_df)].Balance >= goal_amount

\* a trace that ran to the cap without reaching the goal
C5_WitnessCap ==
    /\ ppc = "returned"
    /\ max_months >= 2
    /\ Len(projection_df) = max_months + 1
    /\ projection_df[Len(projection_df)].Balance < goal_amount


(* Properties of the period metrics *)

\* (current - previous) / |previous| * 100, and 0 for a zero previous value
ExpectedPct(current, previous) ==
    IF previous # 0 THEN Rat((current - previous) * 100, Abs(previous)) ELSE Zero

MonthlyAmount(k) == filtered_df[k].amount

\* C6: every period-over-period percentage - the headline MoM and total-growth
\* percentages, calculate_progress in the pivot KPIs and Grand Total row, and
\* the Period_Pct series of the growth chart - is (current - previous) /
\* |previous| * 100 for a nonzero previous value and 0 for a zero one; none is
\* infinite or undefined.
C6_PeriodPercentages ==
    LET n == Len(filtered_df)
    IN  /\ stats.shown =>
              /\ stats.mom_pct = ExpectedPct(MonthlyAmount(n), MonthlyAmount(n - 1))
              /\ stats.total_pct = ExpectedPct(MonthlyAmount(n), MonthlyAmount(1))
        /\ kpi.shown =>
              LET c == Len(month_cols)
                  Total(k) == MonthlyAmount(month_cols[k] + 1)
              IN  /\ kpi.pct_change = ExpectedPct(Total(c), Total(c - 1))
                  /\ kpi.total_progress_pct = ExpectedPct(Total(c), Total(1))
                  /\ \A k \in 2..c : pct_changes[k] = ExpectedPct(Total(k), Total(k - 1))
        /\ \A k \in 2..Len(totals_df) :
              /\ totals_df[k].Period_Pct.den # 0
              /\ totals_df[k].Period_Pct
                    = ExpectedPct(totals_df[k].amount, totals_df[k - 1].amount)

\* the indices n-1, n-1-s, n-1-2s, ... that are >= 0, and the anchor 0
StrideSet(n, s) == {i \in 0..(n - 1) : (n - 1 - i) % s = 0} \cup {0}

StrictlyIncreasing(q) == \A k \in 1..(Len(q) - 1) : q[k] < q[k + 1]

SetOf(q) == {q[k] : k \in 1..Len(q)}

IsStrideSelection(q, n, s) ==
    /\ SetOf(q) = StrideSet(n, s)
    /\ StrictlyIncreasing(q)
    /\ q[1] = 0
    /\ q[Len(q)] = n - 1

PivotViewOf(view) ==
    CASE view = "Monthly" -> "month"
      [] view = "Quarterly" -> "Quarter"
      [] view = "Yearly" -> "Year"

\* C7: for n >= 1 months and stride s (1, 3 or 12) the selected indices are
\* exactly {n-1-k*s >= 0} with 0 added, strictly increasing; the most recent
\* and the earliest month are always selected, and create_pivot_table and
\* show_growth_over_time select the same indices for the same input.
C7_StrideSelection ==
    LET n == Len(filtered_df)
    IN  /\ n >= 1 =>
              \A s \in {1, 3, 12} :
                  /\ IsStrideSelection(GrowthSelectedIndices(n, s), n, s)
                  /\ PivotSelectedIndices(n, s) = GrowthSelectedIndices(n, s)
        /\ vpc \in {"chart", "rendered"} =>
              IsStrideSelection(selected_indices, n, interval_map(period_comparison))
        /\ tpc = "rendered" =>
              /\ IsStrideSelection(month_cols, n, interval_map(comparison_type))
              /\ (vpc = "rendered" /\ comparison_type = PivotViewOf(period_comparison))
                    => month_cols = selected_indices

\* the yearly view over 14 months in both tabs: the stride gives 1 and 13,
\* the anchor 0 is off the stride
C7_Witness ==
    /\ Len(filtered_df) = 14
    /\ vpc = "rendered" /\ period_comparison = "Yearly"
    /\ tpc = "rendered" /\ comparison_type = "Year"
    /\ selected_indices = <<0, 1, 13>>
    /\ month_cols = <<0, 1, 13>>

MilestoneMarks == {k \in 1..Len(annotations) : annotations[k].kind = "milestone"}

\* C8: a milestone M is flagged if and only if min(series) < M < max(series),
\* and then at the smallest period index i with series[i] >= M; a milestone
\* never reached, or equal to the minimum or maximum, is not flagged.
C8_MilestoneCrossing ==
    (vpc = "rendered" /\ show_milestones) =>
        /\ \A j \in 1..Len(milestones) :
              LET M == milestones[j]
                  flagged == {k \in MilestoneMarks : annotations[k].milestone = M}
                  between ==
                      /\ \E i \in 1..Len(totals_df) : totals_df[i].amount < M
                      /\ \E i \in 1..Len(totals_df) : totals_df[i].amount > M
              IN  /\ (flagged # {}) <=> between
                  /\ Cardinality(flagged) <= 1
                  /\ \A k \in flagged :
                        LET i == annotations[k].idx + 1
                        IN  /\ i \in 1..Len(totals_df)
                            /\ totals_df[i].amount >= M
                            /\ \A h \in 1..(i - 1) : totals_df[h].amount < M
                            /\ annotations[k].x = totals_df[i].Period
                            /\ annotations[k].y = totals_df[i].amount
        /\ \A k \in MilestoneMarks : \E j \in 1..Len(milestones) :
              annotations[k].milestone = milestones[j]

\* the series rising from 50,000 to 300,000: 100,000 is flagged at index 1,
\* 250,000 at index 4, and 500,000, never reached, is not flagged
C8_Witness ==
    /\ vpc = "rendered" /\ show_milestones /\ period_comparison = "Monthly"
    /\ Len(totals_df) = 6
    /\ totals_df[1].amount = 50000 /\ totals_df[6].amount = 300000
    /\ \E k \in MilestoneMarks : annotations[k].milestone = 100000 /\ annotations[k].idx = 1
    /\ \E k \in MilestoneMarks : annotations[k].milestone = 250000 /\ annotations[k].idx = 4
    /\ ~\E k \in MilestoneMarks : annotations[k].milestone = 500000

\* C9: with at least 3 periods the momentum label follows the sign of
\* velocity = (last - previous) - (previous - one before): Accelerating,
\* Decelerating or Steady; with exactly 2 periods it is "N/A".
C9_Momentum ==
    stats.shown =>
        LET n == Len(filtered_df)
        IN  /\ n >= 2
            /\ n >= 3 =>
                  LET velocity == (MonthlyAmount(n) - MonthlyAmount(n - 1))
                                  - (MonthlyAmount(n - 1) - MonthlyAmount(n - 2))
                  IN  /\ velocity > 0 => stats.velocity_text = "Accelerating"
                      /\ velocity < 0 => stats.velocity_text = "Decelerating"
                      /\ velocity = 0 => stats.velocity_text = "Steady"
            /\ n = 2 => stats.velocity_text = "N/A"

\* two periods with a change between them: the label is N/A
C9_Witness ==
    /\ stats.shown
    /\ Len(filtered_df) = 2
    /\ MonthlyAmount(2) > MonthlyAmount(1)
    /\ stats.velocity_text = "N/A"

\* three periods whose growth slows down
C9_WitnessDecelerating ==
    /\ stats.shown
    /\ Len(filtered_df) = 3
    /\ MonthlyAmount(1) = 0 /\ MonthlyAmount(2) = 300000 /\ MonthlyAmount(3) = 300000
    /\ stats.velocity_text = "Decelerating"

\* C10: whenever the displayed period series has fewer than 2 periods, in any
\* period view, the calculator reports insufficient data and produces no
\* delta, percentage change, momentum, extremes, rolling average or milestone.
C10_InsufficientData ==
    /\ (vpc = "returned" \/ (vpc = "rendered" /\ Len(totals_df) < 2)) =>
          /\ growth_warning # "none"
          /\ stats = NoStats
          /\ annotations = <<>>
          /\ rolling_avg = <<>>
          /\ \A k \in 1..Len(totals_df) : totals_df[k].Period_Pct = NaN
    /\ (tpc = "stopped" \/ (tpc = "rendered" /\ Len(month_cols) < 2)) =>
          /\ pivot_warning # "none"
          /\ kpi = NoStats
          /\ pct_changes = <<>>
    /\ (Len(filtered_df) < 2 /\ vpc # "call") => vpc = "returned"
    /\ (Len(filtered_df) < 2 /\ tpc # "call") => tpc = "stopped"

RECURSIVE WindowSum(_, _, _)
\* v[from] + ... + v[to] of the displayed totals
WindowSum(rows, from, to) ==
    IF from > to THEN 0 ELSE rows[from].amount + WindowSum(rows, from + 1, to)

RollingAvgComputed == vpc \in {"chart", "rendered"} /\ rolling_avg # <<>>

\* C19: the 3-period rolling average of a series v is, at every index i, the
\* mean of v[max(0, i-2) .. i], the first two points using windows of size 1
\* and 2; for [10, 20, 30, 40] it is [10, 15, 20, 30].
C19_RollingAverage ==
    RollingAvgComputed =>
        /\ Len(rolling_avg) = Len(totals_df)
        /\ \A i \in 1..Len(rolling_avg) :
              LET first == IF i - 2 > 1 THEN i - 2 ELSE 1
                  size == i - first + 1
              IN  /\ rolling_avg[i].den > 0
                  /\ rolling_avg[i].num * size
                        = WindowSum(totals_df, first, i) * rolling_avg[i].den
        /\ [i \in 1..Len(totals_df) |-> totals_df[i].amount] = ExampleSeries =>
              rolling_avg = <<Rat(10, 1), Rat(15, 1), Rat(20, 1), Rat(30, 1)>>

\* the rolling average of [10, 20, 30, 40] was computed
C19_Witness ==
    /\ RollingAvgComputed
    /\ [i \in 1..Len(totals_df) |-> totals_df[i].amount] = ExampleSeries
    /\ Len(rolling_avg) = 4

\* the rolling average of a series whose window mean is not a whole number
C19_WitnessFraction ==
    /\ RollingAvgComputed
    /\ \E i \in 1..Len(rolling_avg) : rolling_avg[i].den = 3

-----------------------------------------------------------------------------
(* Properties of the net worth metrics *)

RECURSIVE MagnitudeSum(_)
\* the sum of the magnitudes of the liability rows
MagnitudeSum(data) ==
    IF data = <<>> THEN 0
    ELSE (IF Head(data).account_type = "Liability" THEN Abs(Head(data).amount) ELSE 0)
         + MagnitudeSum(Tail(data))

\* C11: current_net_worth is the sum of the non-liability amounts minus the
\* magnitude of the liability amounts, whether the liability rows are stored
\* negative or positive, and so equals current_assets - current_liabilities.
C11_NetWorthSign ==
    mpc = "returned" =>
        /\ metrics.current_net_worth =
              TypeSum(latest_data, FALSE) - MagnitudeSum(latest_data)
        /\ metrics.current_net_worth =
              metrics.current_assets - metrics.current_liabilities

-----------------------------------------------------------------------------
(* Properties of the merchant and day-of-week aggregation *)

SpendingByDowReturned ==
    epc \in {"calculate_spending_by_dow", "expense_calculate_spending_by_dow"}

\* C12: calculate_spending_by_dow returns exactly 7 rows, in the order Monday,
\* Tuesday, ..., Sunday, whichever weekdays (including none) have transactions.
C12_SevenDaysInOrder ==
    SpendingByDowReturned =>
        /\ Len(dow_spending) = 7
        /\ \A i \in 1..7 : dow_spending[i].day_of_week = DAYS_OF_WEEK[i]

\* the 7 rows were returned for transactions that fall on some weekdays only
C12_Witness ==
    /\ SpendingByDowReturned
    /\ Len(dow_spending) = 7
    /\ HasDay(tx_df, "Monday") /\ HasDay(tx_df, "Wednesday")
    /\ ~HasDay(tx_df, "Sunday")

\* the 7 rows were returned for no transaction at all
C12_WitnessEmpty ==
    SpendingByDowReturned /\ tx_df = <<>> /\ Len(dow_spending) = 7

\* C13: in the result of calculate_spending_by_dow a weekday on which no
\* transaction occurred has the amount 0, a number and not a missing value.
C13_MissingDayIsZero ==
    SpendingByDowReturned =>
        \A i \in 1..Len(dow_spending) :
            ~HasDay(tx_df, dow_spending[i].day_of_week) =>
                dow_spending[i].amount = Zero

TopMerchantsReturned ==
    /\ epc \in {"calculate_top_merchants", "expense_calculate_top_merchants"}
    /\ tx_raised = "none"

\* the position of merchant m's first transaction in the input
FirstEncountered(m) ==
    CHOOSE i \in 1..Len(tx_df) :
        /\ tx_df[i].merchant = m
        /\ \A j \in 1..(i - 1) : tx_df[j].merchant # m

MerchantsOf(rows) == {rows[i].merchant : i \in 1..Len(rows)}

\* C14: calculate_top_merchants(df, limit) with limit >= 1 returns
\* min(limit, number of merchants) rows, the merchants with the largest
\* |summed amount| in non-increasing order, and merchants with equal |summed
\* amount| are ordered, and kept or truncated, by first encounter in the input.
C14_TopMerchants ==
    (TopMerchantsReturned /\ limit >= 1) =>
        LET n == Len(top_merchants)
            all == MerchantsOf(tx_df)
            kept == MerchantsOf(top_merchants)
            value(m) == Abs(MerchantSum(tx_df, m))
        IN  /\ n = (IF limit < Cardinality(all) THEN limit ELSE Cardinality(all))
            /\ Cardinality(kept) = n
            /\ kept \subseteq all
            /\ \A i \in 1..n : top_merchants[i].amount = value(top_merchants[i].merchant)
            /\ \A i \in 1..n : i < n => top_merchants[i].amount >= top_merchants[i + 1].amount
            /\ \A m \in kept : \A o \in all \ kept : value(m) >= value(o)
            /\ \A i, j \in 1..n :
                  (i < j /\ top_merchants[i].amount = top_merchants[j].amount) =>
                      FirstEncountered(top_merchants[i].merchant)
                          < FirstEncountered(top_merchants[j].merchant)
            /\ \A m \in kept : \A o \in all \ kept :
                  value(m) = value(o) => FirstEncountered(m) < FirstEncountered(o)

\* C14 without its clause on merchants of equal amount
C14_TopMerchantsUpToTies ==
    (TopMerchantsReturned /\ limit >= 1) =>
        LET n == Len(top_merchants)
            all == MerchantsOf(tx_df)
            kept == MerchantsOf(top_merchants)
            value(m) == Abs(MerchantSum(tx_df, m))
        IN  /\ n = (IF limit < Cardinality(all) THEN limit ELSE Cardinality(all))
            /\ Cardinality(kept) = n
            /\ kept \subseteq all
            /\ \A i \in 1..n : top_merchants[i].amount = value(top_merchants[i].merchant)
            /\ \A i \in 1..n : i < n => top_merchants[i].amount >= top_merchants[i + 1].amount
            /\ \A m \in kept : \A o \in all \ kept : value(m) >= value(o)

-----------------------------------------------------------------------------
(* Properties of the risk analysis *)

\* the series the drawdown was computed from
DrawdownSource ==
    IF rpc = "_render_risk_summary" THEN portfolio_daily ELSE symbol_data

DrawdownComputed ==
    rpc \in {"_render_risk_summary", "_render_risk_table"} /\ risk_info = "none"

\* value i of the series is the largest so far
AtRunningPeak(values, i) == \A j \in 1..i : values[j] <= values[i]

\* C20: for a series of positive valuations normalised to 1.0 at its first
\* point the drawdown (value - running_max) / running_max * 100 is <= 0 at
\* every point and exactly 0 wherever the value equals the running maximum,
\* the first point included; the max drawdown, its minimum, is <= 0.
C20_Drawdown ==
    DrawdownComputed =>
        /\ Len(drawdown) = Len(DrawdownSource)
        /\ \A i \in 1..Len(drawdown) :
              /\ drawdown[i].den > 0
              /\ drawdown[i].num <= 0
              /\ AtRunningPeak(DrawdownSource, i) => drawdown[i] = Zero
        /\ drawdown[1] = Zero
        /\ max_drawdown.kind = "float"
        /\ max_drawdown.value.num <= 0
        /\ \E i \in 1..Len(drawdown) : max_drawdown.value = drawdown[i]
        /\ \A i \in 1..Len(drawdown) : ~RatLess(drawdown[i], max_drawdown.value)

\* a drawdown below 0 followed by a new peak, the first value not the largest
C20_Witness ==
    /\ DrawdownComputed
    /\ max_drawdown.value.num < 0
    /\ \E i \in 2..Len(drawdown) :
          /\ drawdown[i - 1].num < 0
          /\ drawdown[i] = Zero
          /\ DrawdownSource[i] > DrawdownSource[1]

\* the risk table has a row for the symbol
BetaComputed == rpc = "_render_risk_table" /\ risk_info = "none"

\* the rows the code aligned for the symbol's beta
AlignedNow ==
    AlignedReturns(SymbolReturns(symbol_data, symbol_start, df_index),
                   PortfolioReturns(portfolio_daily))

\* every value of the series is the same
ConstantSeries(s) == \A i, j \in 1..Len(s) : s[i] = s[j]

\* C21: the reported beta is exactly 1.0 whenever the portfolio's returns
\* on the aligned points are constant (zero variance), there is a single
\* aligned point (undefined variance) or there is none; the beta is
\* never the result of a division by a zero variance (inf or NaN).
C21_BetaDefault ==
    BetaComputed =>
        LET reference == [i \in 1..Len(AlignedNow) |-> AlignedNow[i].portfolio]
        IN  /\ beta.kind = "float"
            /\ beta.value.den # 0
            /\ (Len(reference) <= 1 \/ ConstantSeries(reference))
                  => beta.value = One

\* several aligned points, the portfolio's returns constant and the
\* symbol's not: the default 1.0 is reported
C21_Witness ==
    /\ BetaComputed
    /\ Len(AlignedNow) >= 2
    /\ ConstantSeries([i \in 1..Len(AlignedNow) |-> AlignedNow[i].portfolio])
    /\ ~ConstantSeries([i \in 1..Len(AlignedNow) |-> AlignedNow[i].symbol])
    /\ beta = FloatValue(One)

\* the returns of the symbol and of the portfolio on the dates of the
\* symbol's returns
SymbolReturnsByDate ==
    [i \in 1..(Len(symbol_data) - 1) |-> DailyReturn(symbol_data, i + 1)]
PortfolioReturnsByDate ==
    [i \in 1..(Len(symbol_data) - 1) |->
        DailyReturn(portfolio_daily, symbol_start + i + 1)]

\* C22: when the symbol and the portfolio both have returns on at least
\* two common dates and the portfolio's returns on those dates are not
\* constant, the reported beta is covariance(symbol returns, portfolio
\* returns) / variance(portfolio returns) over those dates: the series
\* are aligned by date and the default 1.0 is not used.
C22_BetaByDate ==
    (/\ rpc = "_render_risk_table"
     /\ Len(symbol_data) >= 3
     /\ ~ConstantSeries(PortfolioReturnsByDate))
    => beta = FloatValue(RatOver(Covariance(SymbolReturnsByDate, PortfolioReturnsByDate),
                                 Variance(PortfolioReturnsByDate)))

-----------------------------------------------------------------------------
(* Further properties of the growth view *)

\* C23: a milestone the first displayed period has already reached is not
\* flagged: every flagged crossing is at an index i >= 1 (counted from 0)
\* and every earlier period is below the milestone.
C23_MilestoneNotBeforeWindow ==
    (vpc = "rendered" /\ show_milestones) =>
        \A k \in MilestoneMarks :
            LET M == annotations[k].milestone
                i == annotations[k].idx
            IN  /\ totals_df[1].amount < M
                /\ i >= 1
                /\ \A h \in 1..i : totals_df[h].amount < M

\* C26: computing a period metric leaves the caller's record collection
\* unchanged: after the growth view and the pivot table have run, the
\* frame they were handed has the columns it came with, so that what is
\* computed next does not depend on what was computed before.
C26_CallerFrameUnchanged ==
    vpc # "idle" => df_columns = NetWorthColumns

\* C27: in the Quarterly and Yearly views over contiguous months no two
\* selected months, the anchor included, get the same quarter or year
\* label: the displayed series has one period per selected month and every
\* period total is the total of exactly one selected month.
C27_OneMonthPerPeriod ==
    (vpc \in {"chart", "rendered"} /\ period_comparison \in {"Quarterly", "Yearly"}) =>
        LET months_selected == SelectedRows(filtered_df, selected_indices)
        IN  /\ \A i, j \in 1..Len(months_selected) :
                  i # j => PeriodLabel(months_selected[i].month, period_comparison)
                             # PeriodLabel(months_selected[j].month, period_comparison)
            /\ Len(totals_df) = Len(months_selected)
            /\ \A k \in 1..Len(totals_df) :
                  totals_df[k].amount = months_selected[k].amount

-----------------------------------------------------------------------------
(* Properties of the stock tracker's symbol list *)

\* the snapshots of a ticker on its most recent date
LatestSnapshots(ticker) ==
    {i \in 1..Len(historical_df) :
        /\ historical_df[i].ticker = ticker
        /\ \A j \in 1..Len(historical_df) :
              historical_df[j].ticker = ticker => historical_df[j].Date <= historical_df[i].Date}

\* C24: _get_filtered_symbols returns, sorted and without repeats, exactly
\* the tickers whose most recent snapshot has quantity > 0, and the list is
\* determined by the data alone: it is the same whatever order the rows of
\* one date come in, also when a ticker has snapshots in several accounts
\* on the same date.
C24_OwnedSymbols ==
    spc = "returned" =>
        /\ \A i, j \in 1..Len(filtered_symbols) :
              i < j => \E a, b \in 1..Len(TickerOrder) :
                  /\ a < b
                  /\ filtered_symbols[i] = TickerOrder[a]
                  /\ filtered_symbols[j] = TickerOrder[b]
        /\ \A k \in 1..Len(TickerOrder) :
              LET t == TickerOrder[k]
                  listed == \E i \in 1..Len(filtered_symbols) : filtered_symbols[i] = t
              IN  /\ listed => \E i \in LatestSnapshots(t) : historical_df[i].quantity > 0
                  /\ (/\ LatestSnapshots(t) # {}
                      /\ \A i \in LatestSnapshots(t) : historical_df[i].quantity > 0)
                        => listed
        /\ \A sorted_df \in SortValuesByDate(historical_df) :
              filtered_symbols = CurrentlyOwned(sorted_df, 1)

\* C24 without the independence of the row order: a ticker is listed only
\* if one of its most recent snapshots has quantity > 0, and always if all
\* of them have
C24_OwnedSymbolsUpToTies ==
    spc = "returned" =>
        \A k \in 1..Len(TickerOrder) :
            LET t == TickerOrder[k]
                listed == \E i \in 1..Len(filtered_symbols) : filtered_symbols[i] = t
            IN  /\ listed => \E i \in LatestSnapshots(t) : historical_df[i].quantity > 0
                /\ (/\ LatestSnapshots(t) # {}
                    /\ \A i \in LatestSnapshots(t) : historical_df[i].quantity > 0)
                      => listed

-----------------------------------------------------------------------------
(* Properties of the cost basis comparison chart *)

TraceNames == {fig.traces[i].name : i \in 1..Len(fig.traces)}

\* C25: whatever the index lookup does (prices, an empty result, no date
\* in common, an exception), with at least 2 daily totals the function
\* returns a chart that holds the cost basis and the portfolio value
\* series, each with one point per date; only the index overlay is left
\* out when the lookup fails, and no exception leaves the function.
C25_ChartDespiteFetch ==
    cpc = "returned" =>
        /\ chart_raised = "none"
        /\ Len(daily_totals) >= 2 =>
              /\ fig.kind = "Figure"
              /\ Len(fig.traces) \in {2, 3}
              /\ fig.traces[1].name = "Cost Basis (Total Invested)"
              /\ fig.traces[2].name = "Portfolio Value"
              /\ \A t \in 1..2 :
                    /\ Len(fig.traces[t].points) = Len(daily_totals)
                    /\ \A i \in 1..Len(daily_totals) :
                          fig.traces[t].points[i].Date = daily_totals[i].Date
              /\ \A i \in 1..Len(daily_totals) :
                    /\ fig.traces[1].points[i].Value = Rat(daily_totals[i].cost_basis, 1)
                    /\ fig.traces[2].points[i].Value = Rat(daily_totals[i].current_value, 1)
              /\ Len(fig.traces) = 3 =>
                    /\ index_fetch.kind = "history"
                    /\ \E i \in 1..Len(daily_totals) :
                          daily_totals[i].Date \in DOMAIN index_fetch.prices

\* the lookup raised and the chart has its two series without the overlay
C25_Witness ==
    /\ cpc = "returned"
    /\ index_fetch.kind = "raises"
    /\ Len(daily_totals) >= 2
    /\ fig.kind = "Figure"
    /\ Len(fig.traces) = 2

\* the lookup returned prices for none of the chart's dates: no overlay
C25_WitnessNoMatch ==
    /\ cpc = "returned"
    /\ index_fetch.kind = "history" /\ DOMAIN index_fetch.prices # {}
    /\ Len(daily_totals) >= 2
    /\ fig.kind = "Figure" /\ Len(fig.traces) = 2

\* the lookup succeeded and the overlay is the third series
C25_WitnessOverlay ==
    /\ cpc = "returned"
    /\ fig.kind = "Figure" /\ Len(fig.traces) = 3
    /\ Len(fig.traces[3].points) < Len(daily_totals)

-----------------------------------------------------------------------------
Init ==
    \/ InitBudget \/ InitGoal \/ InitProjection \/ InitPeriod \/ InitMetrics
    \/ InitExpense \/ InitRisk \/ InitSymbols \/ InitChart \/ InitSidebar
Next ==
    \/ BudgetNext \/ GoalNext \/ ProjNext \/ PeriodNext \/ MetricsNext
    \/ ExpenseNext \/ RiskNext \/ SymbolsNext \/ ChartNext \/ SidebarNext
Spec == Init /\ [][Next]_vars

-----------------------------------------------------------------------------
(* Properties of the sidebar's account selection *)

\* the accounts the last run was given
CurrentAccounts == SeqSet(get_filtered_accounts(selected_account_types))

NoDuplicates(list) ==
    \A i, j \in 1..Len(list) : list[i] = list[j] => i = j

C30_SelectionWithoutDuplicates ==
    (sbpc \in {"run", "wait"} /\ selected_accounts.present) =>
        NoDuplicates(selected_accounts.list)

\* the returned selection is the session's, or empty when nothing is drawn
C30_ReturnedSelection ==
    sbpc = "wait" =>
        (sidebar_ret = selected_accounts.list \/ sidebar_ret = <<>>)
====
